---- MODULE Spec2Model ----
(***************************************************************************)
(* A model of grid_engine: the InnerGrid storage with row growth, the item *)
(* registry, the cascading collision resolution of GridEngine and the      *)
(* change listeners of GridEvents.                                         *)
(***************************************************************************)
EXTENDS Integers, Sequences, FiniteSets, TLC

\* ------------------------------------------------------------------ bounds
\* Number of distinct item ids the callers use (ids are 1..MaxItems).
MaxItems == 3
\* Largest y coordinate a caller passes.
MaxY == 1
\* Largest width or height a caller passes.
MaxSize == 2
\* Calls that would leave the live grid with more rows than this are not made.
MaxRows == 3
\* Column count given to GridEngine::new.
InitCols == 2
\* Row count given to GridEngine::new.
InitRows == 2
\* Number of add_changes_listener calls made.
MaxListeners == 2

Ids == 1..MaxItems
\* x = InitCols is the first column outside the grid.
Xs == 0..InitCols
Ys == 0..MaxY
Sizes == 1..MaxSize

VARIABLES
    grid,                \* GridEngine.grid : InnerGrid
    items,               \* GridEngine.items : BTreeMap<String, Node>
    pending_changes,     \* GridEngine.pending_changes : Vec<Change>
    listener_id_counter, \* GridEvents.listener_id_counter
    changes_listeners    \* GridEvents.changes_listeners (ids, in order)

vars == <<grid, items, pending_changes, listener_id_counter,
          changes_listeners>>

\* --------------------------------------------------------------- values
\* Option<String>: None is the empty sequence, Some(id) a one-element one.
None == <<>>
Some(id) == <<id>>

\* Node::new
Node(id, x, y, w, h) == [id |-> id, x |-> x, y |-> y, w |-> w, h |-> h]

\* Change::Add / Change::Remove / Change::Move
AddChange(node) == [kind |-> "Add", value |-> node]
RemoveChange(node) == [kind |-> "Remove", value |-> node]
MoveChange(old, new) == [kind |-> "Move", old_value |-> old, new_value |-> new]

\* Result values
NoErr == [kind |-> "Ok"]
OutOfBoundsAccess(x, y) == [kind |-> "OutOfBoundsAccess", x |-> x, y |-> y]
MismatchedGridItem(id) == [kind |-> "MismatchedGridItem", id |-> id]
ItemNotFound(id) == [kind |-> "ItemNotFound", id |-> id]
ItemAlreadyExists(id) == [kind |-> "ItemAlreadyExists", id |-> id]

\* for_cell that takes an extent of 0 for an extent of 1.
for_cell_NoEmptyExtent(x, y, w, h) ==
    [i \in 1..((IF w = 0 THEN 1 ELSE w) * (IF h = 0 THEN 1 ELSE h)) |->
        <<x + ((i - 1) \div (IF h = 0 THEN 1 ELSE h)),
          y + ((i - 1) % (IF h = 0 THEN 1 ELSE h))>>]

\* ---------------------------------------------------------------- utils
\* for_cell with the extents of the two loops exchanged: x runs over h
\* columns and y over w rows.
for_cell_SwappedExtent(x, y, w, h) ==
    [i \in 1..(w * h) |-> <<x + ((i - 1) \div w), y + ((i - 1) % w)>>]

\* for_cell: the cells of a rectangle in visiting order, outer loop over x,
\* inner loop over y.
\* for_cell with the outer loop over y and the inner loop over x.
for_cell_RowMajor(x, y, w, h) ==
    [i \in 1..(w * h) |-> <<x + ((i - 1) % w), y + ((i - 1) \div w)>>]

\* for_cell over the inclusive ranges x..=x+w and y..=y+h.
for_cell_InclusiveExtent(x, y, w, h) ==
    [i \in 1..((w + 1) * (h + 1)) |->
        <<x + ((i - 1) \div (h + 1)), y + ((i - 1) % (h + 1))>>]

for_cell(x, y, w, h) ==
    [i \in 1..(w * h) |-> <<x + ((i - 1) \div h), y + ((i - 1) % h)>>]

\* The loop of for_cell at cell i, with a callback that pushes the cell it
\* is called with to `visited` and returns an error for the cells of
\* `fails`: the cells visited and the error returned.
RECURSIVE for_cell_calls(_, _, _, _)

for_cell_calls(cells, i, fails, visited) ==
    IF i > Len(cells)
    THEN [visited |-> visited, err |-> NoErr]
    ELSE IF cells[i] \in fails
    THEN [visited |-> Append(visited, cells[i]),
          err |-> OutOfBoundsAccess(cells[i][1], cells[i][2])]
    ELSE for_cell_calls(cells, i + 1, fails, Append(visited, cells[i]))

\* for_cell called with that callback.
for_cell_visits(x, y, w, h, fails) ==
    for_cell_calls(for_cell(x, y, w, h), 1, fails, <<>>)

\* ------------------------------------------------------------ InnerGrid
\* InnerGrid::new
InnerGrid_new(rows, cols) ==
    [can_expand_y |-> TRUE,
     cols |-> cols,
     inner |-> [r \in 1..rows |-> [c \in 1..cols |-> None]]]

rows(g) == Len(g.inner)
cols(g) == g.cols

\* Grid::get(row, col) of the underlying grid: is the cell inside the grid?
InBounds(g, x, y) == x < cols(g) /\ y < rows(g)

\* The content of a cell that is inside the grid.
Cell(g, x, y) == g.inner[y + 1][x + 1]

\* InnerGrid::expand_rows
expand_rows(g, n) ==
    [g EXCEPT !.inner = @ \o [r \in 1..n |-> [c \in 1..cols(g) |-> None]]]

\* handle_expansion that adds one row too few.
handle_expansion_OneRowShort(g, x, y) ==
    IF (g.can_expand_y /\ x < cols(g)) /\ y >= rows(g)
    THEN expand_rows(g, y - rows(g))
    ELSE g

\* handle_expansion that does not look at the column.
handle_expansion_AnyColumn(g, x, y) ==
    IF g.can_expand_y /\ y >= rows(g)
    THEN expand_rows(g, y - rows(g) + 1)
    ELSE g

\* InnerGrid::handle_expansion
handle_expansion(g, x, y) ==
    IF (g.can_expand_y /\ x < cols(g)) /\ y >= rows(g)
    THEN expand_rows(g, y - rows(g) + 1)
    ELSE g

\* The second self.inner.get(y, x) of InnerGrid::get: the grid after the
\* access and whether the access found a cell.
Accessed(g, x, y) == [grid |-> g, found |-> InBounds(g, x, y)]

\* InnerGrid::get and InnerGrid::get_mut
InnerGrid_get(g, x, y) ==
    Accessed(IF ~InBounds(g, x, y) THEN handle_expansion(g, x, y) ELSE g,
             x, y)

\* The body of InnerGrid::update after get_mut returned a, with an Add that
\* writes to an empty cell only.
update_cell_AddKeepsOccupied(a, node, x, y, operation) ==
    IF ~a.found
    THEN [grid |-> a.grid, err |-> OutOfBoundsAccess(x, y)]
    ELSE IF operation = "Add" /\ Cell(a.grid, x, y) = None
    THEN [grid |-> [a.grid EXCEPT !.inner[y + 1][x + 1] = Some(node.id)],
          err |-> NoErr]
    ELSE IF operation = "Remove" /\ Cell(a.grid, x, y) = Some(node.id)
    THEN [grid |-> [a.grid EXCEPT !.inner[y + 1][x + 1] = None],
          err |-> NoErr]
    ELSE [grid |-> a.grid, err |-> NoErr]

\* The body of InnerGrid::update after get_mut returned a, with a Remove
\* that clears nothing.
update_cell_RemoveKeeps(a, node, x, y, operation) ==
    IF ~a.found
    THEN [grid |-> a.grid, err |-> OutOfBoundsAccess(x, y)]
    ELSE IF operation = "Add"
    THEN [grid |-> [a.grid EXCEPT !.inner[y + 1][x + 1] = Some(node.id)],
          err |-> NoErr]
    ELSE [grid |-> a.grid, err |-> NoErr]

\* The body of InnerGrid::update after get_mut returned a, with a Remove
\* that clears the cell whatever id it holds.
update_cell_Unguarded(a, node, x, y, operation) ==
    IF ~a.found
    THEN [grid |-> a.grid, err |-> OutOfBoundsAccess(x, y)]
    ELSE [grid |-> [a.grid EXCEPT !.inner[y + 1][x + 1] =
                       IF operation = "Add" THEN Some(node.id) ELSE None],
          err |-> NoErr]

\* The body of InnerGrid::update after get_mut returned a.
update_cell(a, node, x, y, operation) ==
    IF ~a.found
    THEN [grid |-> a.grid, err |-> OutOfBoundsAccess(x, y)]
    ELSE IF operation = "Add"
    THEN [grid |-> [a.grid EXCEPT !.inner[y + 1][x + 1] = Some(node.id)],
          err |-> NoErr]
    ELSE IF Cell(a.grid, x, y) = Some(node.id)
    THEN [grid |-> [a.grid EXCEPT !.inner[y + 1][x + 1] = None],
          err |-> NoErr]
    ELSE [grid |-> a.grid, err |-> NoErr]

\* InnerGrid::update that leaves the grid as it is, without an error, when
\* the cell lies outside of it.
InnerGrid_update_NoGrowth(g, node, x, y, operation) ==
    IF InBounds(g, x, y)
    THEN update_cell(Accessed(g, x, y), node, x, y, operation)
    ELSE [grid |-> g, err |-> NoErr]

\* InnerGrid::update
InnerGrid_update(g, node, x, y, operation) ==
    update_cell(InnerGrid_get(g, x, y), node, x, y, operation)

\* ----------------------------------------------------------------- Node
\* Node::update_grid: one InnerGrid::update per cell, stopping at the first
\* error.  update_grid_from is the loop at cell i, update_grid_next the `?`
\* on the result u of the update of cell i.
RECURSIVE update_grid_from(_, _, _, _, _)
RECURSIVE update_grid_next(_, _, _, _, _)

update_grid_from(node, g, operation, cells, i) ==
    IF i > Len(cells)
    THEN [grid |-> g, err |-> NoErr]
    ELSE update_grid_next(node,
             InnerGrid_update(g, node, cells[i][1], cells[i][2], operation),
             operation, cells, i)

update_grid_next(node, u, operation, cells, i) ==
    IF u.err # NoErr
    THEN u
    ELSE update_grid_from(node, u.grid, operation, cells, i + 1)

update_grid(node, g, operation) ==
    update_grid_from(node, g, operation,
                     for_cell(node.x, node.y, node.w, node.h), 1)

\* ----------------------------------------------------------- GridEngine
\* Vec::contains
Contains(seq, v) == \E k \in 1..Len(seq) : seq[k] = v

\* A push without the contains test.
PushUnique_Always(collides_with, node) == Append(collides_with, node)

\* if !collides_with.contains(&node) { collides_with.push(&node) }
PushUnique(collides_with, node) ==
    IF Contains(collides_with, node)
    THEN collides_with
    ELSE Append(collides_with, node)

\* GridEngine::will_collides_with: visits the cells of the rectangle of node
\* placed at (x, y) in the (mutable) grid it is given.
\* will_collides_with_from is the loop at cell i, visit_cell the callback
\* after grid.get returned a, check_cell its match on the cell.
RECURSIVE will_collides_with_from(_, _, _, _, _, _)
RECURSIVE visit_cell(_, _, _, _, _, _)
RECURSIVE check_cell(_, _, _, _, _, _, _)

will_collides_with_from(its, node, g, cells, i, collides_with) ==
    IF i > Len(cells)
    THEN [grid |-> g, err |-> NoErr, collides_with |-> collides_with]
    ELSE visit_cell(its, node, InnerGrid_get(g, cells[i][1], cells[i][2]),
                    cells, i, collides_with)

visit_cell(its, node, a, cells, i, collides_with) ==
    IF ~a.found
    THEN [grid |-> a.grid,
          err |-> OutOfBoundsAccess(cells[i][1], cells[i][2]),
          collides_with |-> collides_with]
    ELSE check_cell(its, node, a.grid, Cell(a.grid, cells[i][1], cells[i][2]),
                    cells, i, collides_with)

check_cell(its, node, g, cell, cells, i, collides_with) ==
    IF cell # None /\ cell # Some(node.id) /\ cell[1] \notin DOMAIN its
    THEN [grid |-> g, err |-> MismatchedGridItem(cell[1]),
          collides_with |-> collides_with]
    ELSE will_collides_with_from(its, node, g, cells, i + 1,
             IF cell # None /\ cell # Some(node.id)
             THEN PushUnique(collides_with, its[cell[1]])
             ELSE collides_with)

\* will_collides_with that visits only the cells inside the columns of the
\* grid, taking a cell beyond the last column for an empty one.
will_collides_with_SkipsOutOfBounds(its, node, x, y, g) ==
    will_collides_with_from(its, node, g,
        SelectSeq(for_cell(x, y, node.w, node.h), LAMBDA c : c[1] < cols(g)),
        1, <<>>)

will_collides_with(its, node, x, y, g) ==
    will_collides_with_from(its, node, g, for_cell(x, y, node.w, node.h), 1,
                            <<>>)

\* An already_moved test that finds no pending Move.
already_moved_Never(pending, id) == FALSE

\* The already_moved test of create_move_change.
already_moved(pending, id) ==
    \E k \in 1..Len(pending) :
        pending[k].kind = "Move" /\ pending[k].new_value.id = id

\* The Move of create_move_change with w and h exchanged in the new node.
NewMove_SwapsSize(node, new_x, new_y) ==
    MoveChange(node, Node(node.id, new_x, new_y, node.h, node.w))

\* The Move pushed by create_move_change.
NewMove(node, new_x, new_y) ==
    MoveChange(node, Node(node.id, new_x, new_y, node.w, node.h))

\* A collided node pushed one row down from where it is.
PushTarget_OneRowDown(node, y, collided) == <<collided.x, collided.y + 1>>

\* A collided node pushed below the incoming node in the incoming node's
\* column instead of its own.
PushTarget_IncomingColumn(node, y, collided) == <<node.x, y + node.h>>

\* A collided node pushed down by its own height instead of the incoming
\* node's.
PushTarget_OwnHeight(node, y, collided) == <<collided.x, y + collided.h>>

\* Where handle_collision sends a collided node: its own column, the row
\* below the incoming node placed at y.
PushTarget(node, y, collided) == <<collided.x, y + node.h>>

\* GridEngine::handle_collision and GridEngine::create_move_change.  Both
\* read the registry (its), append to the pending changes and work on the
\* grid they are given; they return the pending changes, the grid and the
\* error that stopped them, if any.
\*   collide_all            handle_collision after will_collides_with gave c
\*   handle_collision_loop  its `for collided in collides_with`, at i
\*   push_collided          the loop body after node.update_grid gave erased
\*   move_collided          the create_move_change call of the loop body
\*   after_move             the `?` on the result m of that call
\*   record_move            create_move_change after handle_collision gave hc
\* path is the call stack: the ids of the nodes of the handle_collision
\* calls that are running, outermost first.  seen is the sequence of the
\* call stacks of the handle_collision calls made during the call that
\* returns it, in the order in which they returned.
RECURSIVE handle_collision(_, _, _, _, _, _, _)
RECURSIVE collide_all(_, _, _, _, _, _)
RECURSIVE handle_collision_loop(_, _, _, _, _, _, _, _)
RECURSIVE push_collided(_, _, _, _, _, _, _, _, _)
RECURSIVE move_collided(_, _, _, _, _, _)
RECURSIVE after_move(_, _, _, _, _, _, _, _)
RECURSIVE create_move_change(_, _, _, _, _, _, _)

handle_collision(its, pending, node, x, y, g, path) ==
    collide_all(its, pending, node, y, will_collides_with(its, node, x, y, g),
                Append(path, node.id))

\* handle_collision that displaces the nodes found before the error of
\* will_collides_with instead of returning it.
collide_all_IgnoresError(its, pending, node, y, c, path) ==
    handle_collision_loop(its, pending, node, y, c.grid, c.collides_with, 1,
                          path)

collide_all(its, pending, node, y, c, path) ==
    IF c.err # NoErr
    THEN [pending |-> pending, grid |-> c.grid, err |-> c.err,
          seen |-> <<path>>]
    ELSE handle_collision_loop(its, pending, node, y, c.grid,
                               c.collides_with, 1, path)

handle_collision_loop(its, pending, node, y, g, collides_with, i, path) ==
    IF i > Len(collides_with)
    THEN [pending |-> pending, grid |-> g, err |-> NoErr, seen |-> <<path>>]
    ELSE push_collided(its, pending, node, y, g, collides_with, i,
                       update_grid(node, g, "Remove"), path)

push_collided(its, pending, node, y, g, collides_with, i, erased, path) ==
    IF erased.err # NoErr
    THEN [pending |-> pending, grid |-> g, err |-> erased.err,
          seen |-> <<path>>]
    ELSE after_move(its, node, y, g, collides_with, i,
             move_collided(its, pending, collides_with[i],
                           PushTarget(node, y, collides_with[i]),
                           erased.grid, path),
             path)

move_collided(its, pending, collided, target, new_grid, path) ==
    create_move_change(its, pending, collided, target[1], target[2], new_grid,
                       path)

after_move(its, node, y, g, collides_with, i, m, path) ==
    IF m.err # NoErr
    THEN [pending |-> m.pending, grid |-> g, err |-> m.err,
          seen |-> m.seen \o <<path>>]
    ELSE [handle_collision_loop(its, m.pending, node, y, g, collides_with,
                                i + 1, path)
             EXCEPT !.seen = m.seen \o @]

\* create_move_change that puts the Move in front of the pending changes.
record_move_InFront(hc, node, new_x, new_y) ==
    IF hc.err # NoErr \/ already_moved(hc.pending, node.id)
    THEN hc
    ELSE [hc EXCEPT !.pending = <<NewMove(node, new_x, new_y)>> \o @]

record_move(hc, node, new_x, new_y) ==
    IF hc.err # NoErr \/ already_moved(hc.pending, node.id)
    THEN hc
    ELSE [hc EXCEPT !.pending = Append(@, NewMove(node, new_x, new_y))]

create_move_change(its, pending, node, new_x, new_y, g, path) ==
    record_move(handle_collision(its, pending, node, new_x, new_y, g, path),
                node, new_x, new_y)

\* An insertion that keeps the node already registered under the id.
Insert_KeepsExisting(its, node) ==
    [k \in DOMAIN its \cup {node.id} |->
        IF k \in DOMAIN its THEN its[k] ELSE node]

\* BTreeMap::insert and BTreeMap::remove on the registry.
Insert(its, node) ==
    [k \in DOMAIN its \cup {node.id} |-> IF k = node.id THEN node ELSE its[k]]

\* A removal that takes every key up to id out of the registry.
Remove_Through(its, id) == [k \in {j \in DOMAIN its : j > id} |-> its[k]]

Remove(its, id) == [k \in DOMAIN its \ {id} |-> its[k]]

\* The arms of the match of GridEngine::apply_changes, each after its first
\* update_grid returned u: the live grid and the registry after the change,
\* and the error that stopped it, if any.
added(u, its, node) ==
    IF u.err # NoErr
    THEN [grid |-> u.grid, items |-> its, err |-> u.err]
    ELSE [grid |-> u.grid, items |-> Insert(its, node), err |-> NoErr]

\* A Remove arm that drops the last row of the grid when the removal left
\* it empty.
removed_DropsEmptyRow(u, its, node) ==
    IF u.err # NoErr
    THEN [grid |-> u.grid, items |-> its, err |-> u.err]
    ELSE [grid |-> IF rows(u.grid) > 1 /\ \A c \in 1..cols(u.grid) :
                          u.grid.inner[rows(u.grid)][c] = None
                   THEN [u.grid EXCEPT
                            !.inner = SubSeq(@, 1, rows(u.grid) - 1)]
                   ELSE u.grid,
          items |-> Remove(its, node.id), err |-> NoErr]

\* A Remove arm that clears the cells and leaves the item registered.
removed_KeepsRegistered(u, its, node) ==
    [grid |-> u.grid, items |-> its, err |-> u.err]

removed(u, its, node) ==
    IF u.err # NoErr
    THEN [grid |-> u.grid, items |-> its, err |-> u.err]
    ELSE [grid |-> u.grid, items |-> Remove(its, node.id), err |-> NoErr]

rewritten(v, its) == [grid |-> v.grid, items |-> its, err |-> v.err]

moved(u, its, node) ==
    IF u.err # NoErr
    THEN [grid |-> u.grid, items |-> its, err |-> u.err]
    ELSE rewritten(update_grid(node, u.grid, "Add"), Insert(its, node))

\* apply_changes whose Remove takes the item out of the registry and leaves
\* its cells in the grid.
apply_change_RemoveKeepsCells(g, its, change) ==
    IF change.kind = "Add"
    THEN added(update_grid(change.value, g, "Add"), its, change.value)
    ELSE IF change.kind = "Remove"
    THEN removed([grid |-> g, err |-> NoErr], its, change.value)
    ELSE moved(update_grid(change.old_value, g, "Remove"), its,
               change.new_value)

\* apply_changes whose Move does not clear the old footprint.
apply_change_MoveKeepsOld(g, its, change) ==
    IF change.kind = "Add"
    THEN added(update_grid(change.value, g, "Add"), its, change.value)
    ELSE IF change.kind = "Remove"
    THEN removed(update_grid(change.value, g, "Remove"), its, change.value)
    ELSE moved([grid |-> g, err |-> NoErr], its, change.new_value)

\* One iteration of the loop of GridEngine::apply_changes.
apply_change(g, its, change) ==
    IF change.kind = "Add"
    THEN added(update_grid(change.value, g, "Add"), its, change.value)
    ELSE IF change.kind = "Remove"
    THEN removed(update_grid(change.value, g, "Remove"), its, change.value)
    ELSE moved(update_grid(change.old_value, g, "Remove"), its,
               change.new_value)

\* GridEvents::trigger_changes_event: every listener, in list order, is
\* called with the value.
\* trigger_changes_event that calls the listeners last registered first.
trigger_changes_event_LastFirst(listeners, value) ==
    [k \in 1..Len(listeners) |->
        [listener |-> listeners[Len(listeners) + 1 - k], changes |-> value]]

trigger_changes_event(listeners, value) ==
    [k \in 1..Len(listeners) |-> [listener |-> listeners[k], changes |-> value]]

\* GridEngine::apply_changes: the changes in order, stopping at the first
\* error, then the event.  apply_changes_from is the loop at change i,
\* apply_changes_next the `?` on the result a of change i.
RECURSIVE apply_changes_from(_, _, _, _, _)
RECURSIVE apply_changes_next(_, _, _, _)

\* apply_changes whose event carries the changes in reverse order.
apply_changes_from_ReversedEvent(g, its, listeners, changes, i) ==
    IF i > Len(changes)
    THEN [grid |-> g, items |-> its, err |-> NoErr,
          events |-> <<[k \in 1..Len(changes) |->
                          changes[Len(changes) + 1 - k]]>>,
          invoked |-> trigger_changes_event(listeners,
                          [k \in 1..Len(changes) |->
                              changes[Len(changes) + 1 - k]])]
    ELSE apply_changes_next(apply_change(g, its, changes[i]), listeners,
                            changes, i)

apply_changes_from(g, its, listeners, changes, i) ==
    IF i > Len(changes)
    THEN [grid |-> g, items |-> its, err |-> NoErr,
          events |-> <<changes>>,
          invoked |-> trigger_changes_event(listeners, changes)]
    ELSE apply_changes_next(apply_change(g, its, changes[i]), listeners,
                            changes, i)

apply_changes_next(a, listeners, changes, i) ==
    IF a.err # NoErr
    THEN [grid |-> a.grid, items |-> a.items, err |-> a.err,
          events |-> <<>>, invoked |-> <<>>]
    ELSE apply_changes_from(a.grid, a.items, listeners, changes, i + 1)

apply_changes(g, its, listeners, changes) ==
    apply_changes_from(g, its, listeners, changes, 1)

\* The engine after a public call that stopped before apply_changes.
Stopped(g, its, pending, err) ==
    [grid |-> g, items |-> its, pending_changes |-> pending, err |-> err,
     value |-> None, events |-> <<>>, invoked |-> <<>>]

\* A public call that ran apply_changes and did not clear the pending
\* changes.
Applied_KeepsPending(a, pending, value) ==
    [grid |-> a.grid, items |-> a.items,
     pending_changes |-> pending,
     err |-> a.err,
     value |-> IF a.err = NoErr THEN value ELSE None,
     events |-> a.events, invoked |-> a.invoked]

\* The engine after a public call that ran apply_changes (a) and, when it
\* succeeded, cleared the pending changes; value is what the call returns.
Applied(a, pending, value) ==
    [grid |-> a.grid, items |-> a.items,
     pending_changes |-> IF a.err = NoErr THEN <<>> ELSE pending,
     err |-> a.err,
     value |-> IF a.err = NoErr THEN value ELSE None,
     events |-> a.events, invoked |-> a.invoked]

\* add_item after apply_changes returned a: the lookup of the committed node.
commit_add(a, changes, id) ==
    IF a.err = NoErr /\ id \notin DOMAIN a.items
    THEN [Applied(a, changes, None) EXCEPT !.err = MismatchedGridItem(id)]
    ELSE Applied(a, changes,
                 IF a.err = NoErr THEN Some(a.items[id]) ELSE None)

\* add_item after create_add_change made the pending changes `changes`.
apply_add(g, its, listeners, changes, id) ==
    commit_add(apply_changes(g, its, listeners, changes), changes, id)

\* add_item that resolves collisions on the live grid instead of a clone:
\* what handle_collision left of the grid is the grid of the engine.
add_node_OnLiveGrid(g, its, listeners, node, hc) ==
    IF hc.err # NoErr
    THEN Stopped(hc.grid, its, hc.pending, hc.err)
    ELSE apply_add(hc.grid, its, listeners,
                   Append(hc.pending, AddChange(node)), node.id)

\* add_item after handle_collision returned hc.
add_node(g, its, listeners, node, hc) ==
    IF hc.err # NoErr
    THEN Stopped(g, its, hc.pending, hc.err)
    ELSE apply_add(g, its, listeners, Append(hc.pending, AddChange(node)),
                   node.id)

\* add_item that looks for a duplicate id only after resolving collisions.
add_node_LateDuplicateCheck(g, its, listeners, node, hc) ==
    IF hc.err # NoErr
    THEN Stopped(g, its, hc.pending, hc.err)
    ELSE IF node.id \in DOMAIN its
    THEN Stopped(g, its, hc.pending, ItemAlreadyExists(node.id))
    ELSE apply_add(g, its, listeners, Append(hc.pending, AddChange(node)),
                   node.id)

add_item_LateDuplicateCheck(g, its, pending, listeners, id, x, y, w, h) ==
    add_node_LateDuplicateCheck(g, its, listeners, Node(id, x, y, w, h),
        handle_collision(its, pending, Node(id, x, y, w, h), x, y, g,
                         <<>>))

\* GridEngine::add_item
add_item(g, its, pending, listeners, id, x, y, w, h) ==
    IF id \in DOMAIN its
    THEN Stopped(g, its, pending, ItemAlreadyExists(id))
    ELSE add_node(g, its, listeners, Node(id, x, y, w, h),
             handle_collision(its, pending, Node(id, x, y, w, h), x, y, g,
                         <<>>))

\* remove_item after create_remove_change made the pending changes `changes`.
apply_remove(g, its, listeners, changes, node) ==
    Applied(apply_changes(g, its, listeners, changes), changes, Some(node))

\* remove_item that takes an unregistered id for an item already removed.
remove_item_IgnoresMissing(g, its, pending, listeners, id) ==
    IF id \notin DOMAIN its
    THEN Stopped(g, its, pending, NoErr)
    ELSE apply_remove(g, its, listeners,
                      Append(pending, RemoveChange(its[id])), its[id])

\* GridEngine::remove_item
remove_item(g, its, pending, listeners, id) ==
    IF id \notin DOMAIN its
    THEN Stopped(g, its, pending, ItemNotFound(id))
    ELSE apply_remove(g, its, listeners,
                      Append(pending, RemoveChange(its[id])), its[id])

\* move_item after create_move_change returned m.
apply_move(g, its, listeners, m) ==
    IF m.err # NoErr
    THEN Stopped(g, its, m.pending, m.err)
    ELSE Applied(apply_changes(g, its, listeners, m.pending), m.pending, None)

\* GridEngine::move_item
move_item(g, its, pending, listeners, id, new_x, new_y) ==
    IF id \notin DOMAIN its
    THEN Stopped(g, its, pending, ItemNotFound(id))
    ELSE apply_move(g, its, listeners,
             create_move_change(its, pending, its[id], new_x, new_y, g,
                                <<>>))

\* BTreeMap::values: the registered nodes in ascending order of their key.
RECURSIVE values(_)
values(its) ==
    IF DOMAIN its = {}
    THEN <<>>
    ELSE Append(values(Remove(its,
                    CHOOSE m \in DOMAIN its : \A k \in DOMAIN its : k <= m)),
                its[CHOOSE m \in DOMAIN its : \A k \in DOMAIN its : k <= m])

\* A key that is the row of the node instead of its id.
SortKey_Row(n) == n.y

\* The key of sort_by_key in get_nodes: |n| n.id.clone()
SortKey(n) == n.id

\* One insertion of the stable sort: n, which came after every node of the
\* sorted sequence, goes behind the nodes whose key is not greater.
InsertSorted(sorted, n) ==
    SubSeq(sorted, 1,
           Cardinality({j \in 1..Len(sorted) : SortKey(sorted[j]) <= SortKey(n)}))
    \o <<n>>
    \o SubSeq(sorted,
              Cardinality({j \in 1..Len(sorted) :
                              SortKey(sorted[j]) <= SortKey(n)}) + 1,
              Len(sorted))

\* Vec::sort_by_key, a stable sort.
RECURSIVE sort_by_key(_)
sort_by_key(seq) ==
    IF seq = <<>>
    THEN <<>>
    ELSE InsertSorted(sort_by_key(SubSeq(seq, 1, Len(seq) - 1)), seq[Len(seq)])

\* GridEngine::get_nodes (&self): the engine it leaves and the value it
\* returns.
get_nodes(g, its, pending) ==
    [grid |-> g, items |-> its, pending_changes |-> pending,
     value |-> sort_by_key(values(its))]

\* ------------------------------------------------------------ GridEvents
\* format!("l_{}", counter)
ListenerId(counter) == <<"l_", counter>>

\* A remove that takes the last element whatever the position.
RemoveAt_Last(seq, pos) == SubSeq(seq, 1, Len(seq) - 1)

\* Vec::remove(pos)
RemoveAt(seq, pos) ==
    [k \in 1..(Len(seq) - 1) |-> IF k < pos THEN seq[k] ELSE seq[k + 1]]

\* iter().position(|listener| listener.id == id); 0 when there is none
Position(listeners, id) ==
    IF \E k \in 1..Len(listeners) : listeners[k] = id
    THEN CHOOSE k \in 1..Len(listeners) :
             listeners[k] = id /\ \A j \in 1..(k - 1) : listeners[j] # id
    ELSE 0

\* remove_changes_listener after position returned pos: the listener list
\* it leaves and the value it returns, the listener removed if any.
removed_listener(listeners, id, pos) ==
    IF pos # 0
    THEN [changes_listeners |-> RemoveAt(listeners, pos), value |-> Some(id)]
    ELSE [changes_listeners |-> listeners, value |-> None]

\* GridEvents::remove_changes_listener
remove_changes_listener(listeners, id) ==
    removed_listener(listeners, id, Position(listeners, id))

\* ------------------------------------------------------------- behaviour
\* GridEngine::new
Init ==
    /\ grid = InnerGrid_new(InitRows, InitCols)
    /\ items = <<>>
    /\ pending_changes = <<>>
    /\ listener_id_counter = 0
    /\ changes_listeners = <<>>

\* What the three public calls do from the current state: the engine they
\* leave, the value or error they return, the events they fire and the
\* listener invocations they make.
CallAdd(id, x, y, w, h) ==
    add_item(grid, items, pending_changes, changes_listeners, id, x, y, w, h)

CallRemove(id) ==
    remove_item(grid, items, pending_changes, changes_listeners, id)

CallMove(id, x, y) ==
    move_item(grid, items, pending_changes, changes_listeners, id, x, y)

CallGetNodes == get_nodes(grid, items, pending_changes)

\* The engine takes the state r that a public call left.
Return(r) ==
    /\ rows(r.grid) <= MaxRows
    /\ grid' = r.grid
    /\ items' = r.items
    /\ pending_changes' = r.pending_changes
    /\ UNCHANGED <<listener_id_counter, changes_listeners>>

\* A caller calls add_item.
AddItem ==
    \E id \in Ids, x \in Xs, y \in Ys, w \in Sizes, h \in Sizes :
        Return(CallAdd(id, x, y, w, h))

\* A caller calls remove_item.
RemoveItem ==
    \E id \in Ids : Return(CallRemove(id))

\* A caller calls move_item.
MoveItem ==
    \E id \in Ids, x \in Xs, y \in Ys : Return(CallMove(id, x, y))

\* add_changes_listener that numbers the listener after the length of the
\* list instead of counting on.
AddChangesListener_CountsList ==
    /\ Len(changes_listeners) < MaxListeners
    /\ listener_id_counter' = Len(changes_listeners) + 1
    /\ changes_listeners' =
           Append(changes_listeners, ListenerId(Len(changes_listeners) + 1))
    /\ UNCHANGED <<grid, items, pending_changes>>

\* GridEvents::add_changes_listener
AddChangesListener ==
    /\ listener_id_counter < MaxListeners
    /\ listener_id_counter' = listener_id_counter + 1
    /\ changes_listeners' =
           Append(changes_listeners, ListenerId(listener_id_counter + 1))
    /\ UNCHANGED <<grid, items, pending_changes>>

\* GridEvents::remove_changes_listener
RemoveChangesListener ==
    \E n \in 1..MaxListeners :
        /\ changes_listeners' =
               remove_changes_listener(changes_listeners,
                                       ListenerId(n)).changes_listeners
        /\ UNCHANGED <<grid, items, pending_changes, listener_id_counter>>

Next ==
    \/ AddItem
    \/ RemoveItem
    \/ MoveItem
    \/ AddChangesListener
    \/ RemoveChangesListener

Spec == Init /\ [][Next]_vars

\* The engine alone: no listener is ever registered.
NextEngine ==
    \/ AddItem
    \/ RemoveItem
    \/ MoveItem

SpecEngine == Init /\ [][NextEngine]_vars

\* The runs that call add_item and move_item only.
NextAddMove ==
    \/ AddItem
    \/ MoveItem

SpecAddMove == Init /\ [][NextAddMove]_vars

\* An InnerGrid on its own, as its callers and the tests of inner_grid.rs
\* use it: InnerGrid::new(InitRows, InitCols), then get, update and the
\* assignment grid.can_expand_y = false, in any order.
GridGet ==
    \E x \in Xs, y \in 0..(MaxRows - 1) :
        /\ grid' = InnerGrid_get(grid, x, y).grid
        /\ UNCHANGED <<items, pending_changes, listener_id_counter,
                       changes_listeners>>

GridUpdate ==
    \E id \in Ids, x \in Xs, y \in 0..(MaxRows - 1),
       operation \in {"Add", "Remove"} :
        /\ grid' = InnerGrid_update(grid, Node(id, x, y, 1, 1), x, y,
                                    operation).grid
        /\ UNCHANGED <<items, pending_changes, listener_id_counter,
                       changes_listeners>>

DisableExpansion ==
    /\ grid' = [grid EXCEPT !.can_expand_y = FALSE]
    /\ UNCHANGED <<items, pending_changes, listener_id_counter,
                   changes_listeners>>

NextGrid ==
    \/ GridGet
    \/ GridUpdate
    \/ DisableExpansion

SpecGrid == Init /\ [][NextGrid]_vars

\* A caller calls add_item for a node that occupies no cell, of no width or
\* of no height, beyond the last column and below the last row.
EmptyShapes == {<<0, 1>>, <<1, 0>>}

AddEmptyItem ==
    \E id \in Ids, shape \in EmptyShapes :
        Return(CallAdd(id, InitCols, MaxRows, shape[1], shape[2]))

\* The engine whose callers also add nodes that occupy no cell.
NextWithEmpty ==
    \/ AddItem
    \/ RemoveItem
    \/ MoveItem
    \/ AddEmptyItem

SpecWithEmpty == Init /\ [][NextWithEmpty]_vars

\* A node alone: Node::update_grid is called on a grid for any node, and
\* leaves in the grid what it wrote before an error stopped it.
NodeUpdateGrid ==
    \E id \in Ids, x \in Xs, y \in Ys, w \in Sizes, h \in Sizes,
       operation \in {"Add", "Remove"} :
        /\ grid' = update_grid(Node(id, x, y, w, h), grid, operation).grid
        /\ rows(grid') <= MaxRows
        /\ UNCHANGED <<items, pending_changes, listener_id_counter,
                       changes_listeners>>

NextNode ==
    \/ NodeUpdateGrid
    \/ DisableExpansion

SpecNode == Init /\ [][NextNode]_vars

\* ---------------------------------------------------------------- claims
\* The rectangle [x, x+w) x [y, y+h) of a node, as a set of cells.
Footprint(n) ==
    {<<cx, cy>> : cx \in n.x..(n.x + n.w - 1), cy \in n.y..(n.y + n.h - 1)}

\* All the cells of a grid.
GridCells(g) == {<<cx, cy>> : cx \in 0..(cols(g) - 1), cy \in 0..(rows(g) - 1)}

\* The cells of a grid that hold Some(id).
CellsHolding(g, id) == {c \in GridCells(g) : Cell(g, c[1], c[2]) = Some(id)}

\* The results of every add_item, move_item and remove_item call a caller
\* can make in the current state.
AddResults ==
    {CallAdd(id, x, y, w, h) :
        id \in Ids, x \in Xs, y \in Ys, w \in Sizes, h \in Sizes}

MoveResults == {CallMove(id, x, y) : id \in Ids, x \in Xs, y \in Ys}

RemoveResults == {CallRemove(id) : id \in Ids}

\* Every cell holding Some(id) names a registered id and lies in the
\* rectangle of the node registered under it.
Consistent(g, its) ==
    \A c \in GridCells(g) :
        LET cell == Cell(g, c[1], c[2])
        IN  cell # None =>
                /\ cell[1] \in DOMAIN its
                /\ c \in Footprint(its[cell[1]])

\* No two distinct registered items have intersecting footprints.
NonOverlapping(its) ==
    \A a \in DOMAIN its : \A b \in DOMAIN its :
        a # b => Footprint(its[a]) \cap Footprint(its[b]) = {}

\* Every cell of every registered footprint holds the id of its item.
FootprintsHeld(g, its) ==
    \A id \in DOMAIN its : Footprint(its[id]) \subseteq CellsHolding(g, id)

\* The result r of a call is within the row bound, so the call is a step.
Taken(r) == r.err = NoErr /\ rows(r.grid) <= MaxRows

\* C1: after every add_item, move_item or remove_item call that returns
\* success, in any sequence of such calls from a new engine, every live-grid
\* cell holding Some(id) names a registered id and lies inside the rectangle
\* of the node registered under id.
C1_GridRegistryConsistency == Consistent(grid, items)

\* C1 witness: a call has displaced an item below the initial rows and the
\* grid holds the ids of two items.
C1_Witness ==
    /\ \E id \in DOMAIN items : items[id].y >= InitRows
    /\ \E a \in DOMAIN items : \E b \in DOMAIN items :
           a # b /\ CellsHolding(grid, a) # {} /\ CellsHolding(grid, b) # {}

\* C2: after every successful add_item, move_item or remove_item, in any
\* sequence of such calls, no two distinct registered items have
\* intersecting footprints.
C2_NonOverlapping == NonOverlapping(items)

\* C3: after every successful add_item or move_item, every cell of every
\* registered footprint holds that item's id in the live grid.  Checked on
\* the runs that call add_item and move_item only, where every state but the
\* first is the state after such a call.
C3_FootprintsHeld == FootprintsHeld(grid, items)

C5_MoveItemPlacesNode ==
    \A id \in Ids, nx \in Xs, ny \in Ys :
        LET r == CallMove(id, nx, ny)
        IN  r.err = NoErr =>
                /\ id \in DOMAIN r.items
                /\ r.items[id] = [id |-> id, x |-> nx, y |-> ny,
                                  w |-> items[id].w, h |-> items[id].h]
                /\ CellsHolding(r.grid, id) =
                       {c \in (nx..(nx + items[id].w - 1))
                               \X (ny..(ny + items[id].h - 1)) : TRUE}

\* C5 witness: a move_item succeeds whose old and new footprints overlap
\* without being equal and which displaces another item.
C5_Witness ==
    \E id \in DOMAIN items, nx \in Xs, ny \in Ys :
        LET r == CallMove(id, nx, ny)
            new == [items[id] EXCEPT !.x = nx, !.y = ny]
        IN  /\ Taken(r)
            /\ Footprint(items[id]) \cap Footprint(new) # {}
            /\ Footprint(items[id]) # Footprint(new)
            /\ \E o \in DOMAIN items : o # id /\ r.items[o] # items[o]

\* C6: a successful remove_item(id) returns the geometry the item had before
\* the call; afterwards id is not registered, no live-grid cell holds id, and
\* every cell that held a different id still holds it.
C6_RemoveItemClearsOnlyItsCells ==
    \A id \in Ids :
        LET r == CallRemove(id)
        IN  r.err = NoErr =>
                /\ id \in DOMAIN items
                /\ r.value = Some(items[id])
                /\ id \notin DOMAIN r.items
                /\ CellsHolding(r.grid, id) = {}
                /\ \A c \in GridCells(grid) :
                       LET cell == Cell(grid, c[1], c[2])
                       IN  (cell # None /\ cell # Some(id)) =>
                               /\ c \in GridCells(r.grid)
                               /\ Cell(r.grid, c[1], c[2]) = cell

\* C6 witness: a remove_item succeeds on an item whose rectangle has a cell
\* that holds another item's id.
C6_Witness ==
    \E id \in DOMAIN items :
        /\ Taken(CallRemove(id))
        /\ \E c \in Footprint(items[id]) \cap GridCells(grid) :
               Cell(grid, c[1], c[2]) \notin {None, Some(id)}

\* The ids, other than id, held by the cells of [x, x+w) x [y, y+h).
CollidingIds(g, id, x, y, w, h) ==
    {Cell(g, c[1], c[2])[1] :
        c \in {d \in GridCells(g) :
                  /\ d[1] \in x..(x + w - 1)
                  /\ d[2] \in y..(y + h - 1)
                  /\ Cell(g, d[1], d[2]) \notin {None, Some(id)}}}

\* The case of C7: the rectangle of the incoming item id, inside the columns
\* of the grid, collides with exactly the item cid, whose landing rectangle
\* at (c.x, y + h) holds no third item.
SingleCollision(id, x, y, w, h, cid) ==
    /\ x + w <= cols(grid)
    /\ CollidingIds(grid, id, x, y, w, h) = {cid}
    /\ cid \in DOMAIN items
    /\ \A c \in Footprint([items[cid] EXCEPT !.y = y + h]) \cap GridCells(grid) :
           Cell(grid, c[1], c[2]) \in {None, Some(cid), Some(id)}

\* What C7 says of the result r of such a call for an item of geometry n.
PushedBelow(r, n, cid) ==
    /\ r.err = NoErr
    /\ n.id \in DOMAIN r.items /\ r.items[n.id] = n
    /\ cid \in DOMAIN r.items
    /\ r.items[cid] = [id |-> cid, x |-> items[cid].x, y |-> n.y + n.h,
                       w |-> items[cid].w, h |-> items[cid].h]

AnyXs == 0..(InitCols + 1)
AnyYs == 0..(MaxY + 1)
AnySizes == 0..MaxSize

\* A call result r that left the engine as it is and told no listener.
NothingDone(r) ==
    /\ r.grid = grid
    /\ rows(r.grid) = rows(grid)
    /\ r.items = items
    /\ r.pending_changes = pending_changes
    /\ r.events = <<>>
    /\ r.invoked = <<>>

\* C8: add_item with an id that is already registered returns
\* ItemAlreadyExists{id} and leaves the registry, every live-grid cell, the
\* row count and the pending change list unchanged, and notifies no listener,
\* whatever x, y, w, h are given.
C8_DuplicateAddRejected ==
    \A id \in DOMAIN items, x \in AnyXs, y \in AnyYs, w \in AnySizes,
       h \in AnySizes :
        LET r == CallAdd(id, x, y, w, h)
        IN  /\ r.err = [kind |-> "ItemAlreadyExists", id |-> id]
            /\ NothingDone(r)

\* C8 witness: a listener is registered and an add_item with a registered id
\* asks for a rectangle that holds another item.
C8_Witness ==
    /\ changes_listeners # <<>>
    /\ \E id \in DOMAIN items, x \in Xs, y \in Ys, w \in Sizes, h \in Sizes :
           /\ CallAdd(id, x, y, w, h).err.kind = "ItemAlreadyExists"
           /\ CollidingIds(grid, id, x, y, w, h) # {}

\* C9: move_item and remove_item with an id that is not registered return
\* ItemNotFound{id} and leave the registry, every live-grid cell, the row
\* count and the pending change list unchanged, and notify no listener.
C9_UnknownIdRejected ==
    \A id \in Ids \ DOMAIN items :
        /\ \A x \in AnyXs, y \in AnyYs :
               LET r == CallMove(id, x, y)
               IN  /\ r.err = [kind |-> "ItemNotFound", id |-> id]
                   /\ NothingDone(r)
        /\ LET r == CallRemove(id)
           IN  /\ r.err = [kind |-> "ItemNotFound", id |-> id]
               /\ NothingDone(r)

\* C9 witness: a listener and an item are registered, the grid holds the
\* item, and a move_item and a remove_item name an id that is not registered.
C9_Witness ==
    /\ changes_listeners # <<>>
    /\ \E o \in DOMAIN items : CellsHolding(grid, o) # {}
    /\ \E id \in Ids \ DOMAIN items :
           /\ CallMove(id, 0, 0).err.kind = "ItemNotFound"
           /\ CallRemove(id).err.kind = "ItemNotFound"

\* C10: whenever add_item, move_item or remove_item returns an error, none of
\* the changes computed for the call are applied: the live grid (cells and
\* row count) and the registry are those before the call and no change event
\* is fired.
C10_FailedCallAppliesNothing ==
    \A r \in AddResults \cup MoveResults \cup RemoveResults :
        r.err # NoErr =>
            /\ r.grid = grid
            /\ rows(r.grid) = rows(grid)
            /\ r.items = items
            /\ r.events = <<>>
            /\ r.invoked = <<>>

\* C10 witness: a listener is registered and an add_item and a move_item fail
\* with OutOfBoundsAccess on rectangles of which a cell inside the grid holds
\* another item.
C10_Witness ==
    /\ changes_listeners # <<>>
    /\ \E id \in Ids, x \in Xs, y \in Ys, w \in Sizes, h \in Sizes :
           /\ CallAdd(id, x, y, w, h).err.kind = "OutOfBoundsAccess"
           /\ CollidingIds(grid, id, x, y, w, h) # {}
    /\ \E id \in DOMAIN items, x \in Xs, y \in Ys :
           /\ CallMove(id, x, y).err.kind = "OutOfBoundsAccess"
           /\ CollidingIds(grid, id, x, y, items[id].w, items[id].h) # {}

\* The results of every public call a caller can make in the current state.
CallResults == AddResults \cup MoveResults \cup RemoveResults

\* The change the caller of the call that returned r asked for is the last
\* of the change-set cs: the Add or Remove of its node, or the Move of its id.
OwnChangeLast(r, cs) ==
    /\ cs # <<>>
    /\ \/ cs[Len(cs)].kind = "Add" /\ r.value = Some(cs[Len(cs)].value)
       \/ cs[Len(cs)].kind = "Remove" /\ r.value = Some(cs[Len(cs)].value)
       \/ /\ cs[Len(cs)].kind = "Move"
          /\ r.value = None
          /\ \A k \in 1..(Len(cs) - 1) : cs[k].kind = "Move"

\* C11: every public call that succeeds fires exactly one change event,
\* after all of its changes have been applied to the grid and registry, and
\* the event carries the call's complete change-set in the order the changes
\* were applied: applying the carried changes in order to the engine before
\* the call gives the engine after it, the caller's own change last.  A call
\* that fails fires no event.
C11_OneEventPerSuccessfulCall ==
    \A r \in CallResults :
        IF r.err = NoErr
        THEN /\ Len(r.events) = 1
             /\ OwnChangeLast(r, r.events[1])
             /\ LET a == apply_changes(grid, items, <<>>, r.events[1])
                IN  a.err = NoErr /\ a.grid = r.grid /\ a.items = r.items
        ELSE r.events = <<>>

\* C11 witness: an add_item succeeds with an event of three changes or more,
\* a move_item succeeds with an event of two or more, a remove_item succeeds
\* and another call fails.
C11_Witness ==
    /\ \E r \in AddResults : Taken(r) /\ Len(r.events[1]) >= 3
    /\ \E r \in MoveResults : Taken(r) /\ Len(r.events[1]) >= 2
    /\ \E r \in RemoveResults : Taken(r)
    /\ \E r \in CallResults : r.err # NoErr

\* The number of the listener id "l_{n}".
ListenerNumber(id) == id[2]

\* C12: on each fired event every currently registered listener is invoked
\* exactly once with the same change-set, the one of the event, in the order
\* the listeners were registered (the order of the listener list, which is
\* the order of their numbers); the invocations are part of the call, made
\* once its changes are committed.  A call that fires no event invokes no
\* listener.
C12_ListenersInvokedInOrder ==
    /\ \A j \in 1..Len(changes_listeners) : \A k \in 1..Len(changes_listeners) :
           j < k => ListenerNumber(changes_listeners[j])
                        < ListenerNumber(changes_listeners[k])
    /\ \A r \in CallResults :
           IF r.events = <<>>
           THEN r.invoked = <<>>
           ELSE /\ Len(r.invoked) = Len(changes_listeners)
                /\ \A k \in 1..Len(r.invoked) :
                       /\ r.invoked[k].listener = changes_listeners[k]
                       /\ r.invoked[k].changes = r.events[1]
                /\ \A j \in 1..Len(r.invoked) : \A k \in 1..Len(r.invoked) :
                       j < k => ListenerNumber(r.invoked[j].listener)
                                    < ListenerNumber(r.invoked[k].listener)

\* C12 witness: two listeners are registered and a call that displaces an
\* item succeeds.
C12_Witness ==
    /\ Len(changes_listeners) = 2
    /\ \E r \in AddResults : Taken(r) /\ Len(r.events[1]) >= 2

\* C13: get_nodes returns every registered node exactly once, in ascending
\* order of id, and a second get_nodes with no mutating call in between
\* returns the same sequence; get_nodes changes no engine state.
C13_GetNodesSortedAndPure ==
    LET r == CallGetNodes
    IN  /\ Len(r.value) = Cardinality(DOMAIN items)
        /\ \A id \in DOMAIN items :
               \E k \in 1..Len(r.value) :
                   /\ r.value[k] = items[id]
                   /\ \A j \in 1..Len(r.value) : r.value[j].id = id => j = k
        /\ \A j \in 1..Len(r.value) : \A k \in 1..Len(r.value) :
               j < k => r.value[j].id < r.value[k].id
        /\ r.grid = grid /\ r.items = items
        /\ r.pending_changes = pending_changes
        /\ get_nodes(r.grid, r.items, r.pending_changes).value = r.value

\* C13 witness: three items are registered and the order of their ids is not
\* the order of their rows.
C13_Witness ==
    /\ Cardinality(DOMAIN items) = 3
    /\ \E a \in DOMAIN items : \E b \in DOMAIN items :
           a < b /\ items[a].y > items[b].y
    /\ Len(CallGetNodes.value) = 3

\* Every Move of the change-set cs, but those of the item own, keeps the
\* column and the size of the item and takes it to a row further down.
DownwardOnly(cs, own) ==
    \A k \in 1..Len(cs) :
        (cs[k].kind = "Move" /\ cs[k].new_value.id # own) =>
            /\ cs[k].new_value.id = cs[k].old_value.id
            /\ cs[k].new_value.x = cs[k].old_value.x
            /\ cs[k].new_value.w = cs[k].old_value.w
            /\ cs[k].new_value.h = cs[k].old_value.h
            /\ cs[k].new_value.y > cs[k].old_value.y

\* The change-sets committed by the call that returned r.
Committed(r) == IF r.err = NoErr THEN r.events ELSE <<>>

\* C14: collisions are resolved only downward: in every committed change-set,
\* each Move of an item other than the one the caller asked to move has
\* new.x = old.x, new.w = old.w, new.h = old.h and new.y > old.y.
C14_CascadeOnlyDownward ==
    /\ \A id \in Ids, x \in Xs, y \in Ys, w \in Sizes, h \in Sizes :
           \A k \in 1..Len(Committed(CallAdd(id, x, y, w, h))) :
               DownwardOnly(Committed(CallAdd(id, x, y, w, h))[k], id)
    /\ \A id \in Ids, x \in Xs, y \in Ys :
           \A k \in 1..Len(Committed(CallMove(id, x, y))) :
               DownwardOnly(Committed(CallMove(id, x, y))[k], id)
    /\ \A id \in Ids :
           \A k \in 1..Len(Committed(CallRemove(id))) :
               DownwardOnly(Committed(CallRemove(id))[k], id)

\* The Moves of a change-set that are not of the item own.
MovesOfOthers(cs, own) ==
    {k \in 1..Len(cs) : cs[k].kind = "Move" /\ cs[k].new_value.id # own}

\* C14 witness: a move_item upward and to another column commits a
\* change-set that displaces two other items.
C14_Witness ==
    \E id \in DOMAIN items, x \in Xs, y \in Ys :
        LET r == CallMove(id, x, y)
        IN  /\ Taken(r)
            /\ y < items[id].y
            /\ x # items[id].x
            /\ Cardinality(MovesOfOthers(r.events[1], id)) >= 2

\* The call stacks of handle_collision that occur during add_item(id, x, y,
\* w, h) and during move_item(id, x, y) in the current state.
AddStacks(id, x, y, w, h) ==
    {handle_collision(items, pending_changes, Node(id, x, y, w, h), x, y, grid,
                      <<>>).seen[k] :
        k \in 1..Len(handle_collision(items, pending_changes,
                                      Node(id, x, y, w, h), x, y, grid,
                                      <<>>).seen)}

MoveStacks(id, x, y) ==
    {create_move_change(items, pending_changes, items[id], x, y, grid,
                        <<>>).seen[k] :
        k \in 1..Len(create_move_change(items, pending_changes, items[id],
                                        x, y, grid, <<>>).seen)}

\* No call stack of the set holds an item twice or is deeper than the
\* number of registered items plus one.
BoundedStacks(stacks) ==
    \A p \in stacks :
        /\ Len(p) <= Cardinality(DOMAIN items) + 1
        /\ \A j \in 1..Len(p) : \A k \in 1..Len(p) : j # k => p[j] # p[k]

\* C15: every add_item and move_item call terminates: the cascade recursion
\* (handle_collision -> create_move_change -> handle_collision) never
\* revisits an item already on the current recursion path, so its depth is at
\* most the number of registered items plus one, for every reachable engine
\* state and every request.
C15_CascadeDepthBounded ==
    /\ \A id \in Ids \ DOMAIN items, x \in AnyXs, y \in AnyYs, w \in Sizes,
          h \in Sizes :
           /\ AddStacks(id, x, y, w, h) # {}
           /\ BoundedStacks(AddStacks(id, x, y, w, h))
    /\ \A id \in DOMAIN items, x \in AnyXs, y \in AnyYs :
           /\ MoveStacks(id, x, y) # {}
           /\ BoundedStacks(MoveStacks(id, x, y))

\* C15 witness: two items are registered, an add_item recurses through both
\* of them, to the depth of three, and a move_item of one recurses through
\* the other onto cells the moved item holds.
C15_Witness ==
    /\ Cardinality(DOMAIN items) = 2
    /\ \E id \in Ids \ DOMAIN items, x \in Xs, y \in Ys, w \in Sizes,
          h \in Sizes :
           /\ Taken(CallAdd(id, x, y, w, h))
           /\ \E p \in AddStacks(id, x, y, w, h) : Len(p) = 3
    /\ \E id \in DOMAIN items, x \in Xs, y \in Ys :
           /\ Taken(CallMove(id, x, y))
           /\ \E p \in MoveStacks(id, x, y) : Len(p) = 2
           /\ \E o \in DOMAIN items :
                  /\ o # id
                  /\ Footprint([items[o] EXCEPT !.y = y + items[id].h])
                         \cap Footprint(items[id]) # {}

\* C16: no sequence of public add_item, move_item and remove_item calls
\* starting from a new engine ever returns MismatchedGridItem: collision
\* detection never finds a cell id missing from the registry, and add_item
\* always finds the just-committed node in the registry.
C16_NoMismatchedGridItem ==
    /\ \A id \in Ids, x \in AnyXs, y \in AnyYs, w \in Sizes, h \in Sizes :
           /\ CallAdd(id, x, y, w, h).err.kind # "MismatchedGridItem"
           /\ CallAdd(id, x, y, w, h).err = NoErr =>
                  id \in DOMAIN CallAdd(id, x, y, w, h).items
    /\ \A id \in Ids, x \in AnyXs, y \in AnyYs :
           CallMove(id, x, y).err.kind # "MismatchedGridItem"
    /\ \A id \in Ids : CallRemove(id).err.kind # "MismatchedGridItem"
    /\ \A c \in GridCells(grid) :
           Cell(grid, c[1], c[2]) # None =>
               Cell(grid, c[1], c[2])[1] \in DOMAIN items

\* C16 witness: an item has been displaced below the initial rows, and an
\* add_item that succeeds and a move_item that succeeds each look up, in the
\* registry, an id found in a cell.
C16_Witness ==
    /\ \E o \in DOMAIN items : items[o].y >= InitRows
    /\ \E id \in Ids \ DOMAIN items, x \in Xs, y \in Ys, w \in Sizes,
          h \in Sizes :
           /\ Taken(CallAdd(id, x, y, w, h))
           /\ CollidingIds(grid, id, x, y, w, h) # {}
    /\ \E id \in DOMAIN items, x \in Xs, y \in Ys :
           /\ Taken(CallMove(id, x, y))
           /\ CollidingIds(grid, id, x, y, items[id].w, items[id].h) # {}

\* What C17 says of the result r of a call for a rectangle at (x, y) that
\* reaches beyond the last column.
RejectedOutOfColumns(r, x, y) ==
    /\ r.err = [kind |-> "OutOfBoundsAccess",
                x |-> IF x > cols(grid) THEN x ELSE cols(grid), y |-> y]
    /\ r.grid = grid
    /\ rows(r.grid) = rows(grid)
    /\ r.items = items
    /\ r.events = <<>>

\* C17: add_item (of an id that is not registered) or move_item (of one that
\* is) whose target rectangle, with w >= 1 and h >= 1, contains a column
\* x >= cols fails with OutOfBoundsAccess{x, y} naming the first
\* out-of-bounds cell in column-major order, (max(x_req, cols), y_req), even
\* if cells of earlier columns collide with existing items; no item is
\* displaced and the live grid, its row count included, and the registry are
\* unchanged.
C17_OutOfColumnsRejected ==
    /\ \A id \in Ids \ DOMAIN items, x \in AnyXs, y \in AnyYs, w \in Sizes,
          h \in Sizes :
           x + w > cols(grid) =>
               RejectedOutOfColumns(CallAdd(id, x, y, w, h), x, y)
    /\ \A id \in DOMAIN items, x \in AnyXs, y \in AnyYs :
           x + items[id].w > cols(grid) =>
               RejectedOutOfColumns(CallMove(id, x, y), x, y)

\* C17 witness: an add_item and a move_item each ask for a rectangle that
\* starts inside the columns, on cells that hold another item, and ends
\* outside them, at rows the grid does not have yet; a third call asks for a
\* rectangle that starts beyond the first column outside the grid.
C17_Witness ==
    /\ \E id \in Ids \ DOMAIN items, x \in Xs, y \in AnyYs, w \in Sizes,
          h \in Sizes :
           /\ x < cols(grid) /\ x + w > cols(grid)
           /\ y + h > rows(grid)
           /\ CollidingIds(grid, id, x, y, w, h) # {}
           /\ CallAdd(id, x, y, w, h).err.kind = "OutOfBoundsAccess"
    /\ \E id \in DOMAIN items, x \in Xs, y \in AnyYs :
           /\ x < cols(grid) /\ x + items[id].w > cols(grid)
           /\ y + items[id].h > rows(grid)
           /\ CollidingIds(grid, id, x, y, items[id].w, items[id].h) # {}
           /\ CallMove(id, x, y).err.kind = "OutOfBoundsAccess"
    /\ \E id \in DOMAIN items :
           CallMove(id, cols(grid) + 1, 0).err.kind = "OutOfBoundsAccess"

\* Every cell of the grid g is a cell of the grid g2 and holds the same.
SameCells(g, g2) ==
    /\ cols(g2) = cols(g)
    /\ \A c \in GridCells(g) :
           c \in GridCells(g2) /\ Cell(g2, c[1], c[2]) = Cell(g, c[1], c[2])

\* The grid g2 is the grid g grown to y + 1 rows, its new cells empty but
\* the cell (x, y), which holds v.
GrownTo(g, g2, x, y, v) ==
    /\ rows(g2) = y + 1
    /\ g2.can_expand_y = g.can_expand_y
    /\ SameCells(g, g2)
    /\ \A c \in GridCells(g2) \ GridCells(g) :
           Cell(g2, c[1], c[2]) = IF c = <<x, y>> THEN v ELSE None

\* Rows below the grid, up to one beyond the rows a grid of the
\* specification can have.
RowsBelow == rows(grid)..MaxRows

\* C18: with growth enabled, a grid read (get) or write (update) at (x, y)
\* with x < cols and y >= rows first grows the grid by exactly y - rows + 1
\* rows of empty cells, so rows becomes y + 1, leaves all existing cells
\* unchanged, and then serves the access; with growth disabled the same
\* access fails with OutOfBoundsAccess{x, y} and the row count is unchanged.
C18_GrowthOnAccessBelow ==
    \A x \in 0..(cols(grid) - 1), y \in RowsBelow :
        /\ IF grid.can_expand_y
           THEN /\ InnerGrid_get(grid, x, y).found
                /\ GrownTo(grid, InnerGrid_get(grid, x, y).grid, x, y, None)
           ELSE /\ ~InnerGrid_get(grid, x, y).found
                /\ InnerGrid_get(grid, x, y).grid = grid
        /\ \A id \in Ids, operation \in {"Add", "Remove"} :
               LET u == InnerGrid_update(grid, Node(id, x, y, 1, 1), x, y,
                                         operation)
               IN  IF grid.can_expand_y
                   THEN /\ u.err = NoErr
                        /\ GrownTo(grid, u.grid, x, y,
                                   IF operation = "Add" THEN Some(id)
                                   ELSE None)
                   ELSE /\ u.err = [kind |-> "OutOfBoundsAccess",
                                    x |-> x, y |-> y]
                        /\ u.grid = grid
                        /\ rows(u.grid) = rows(grid)

\* C18 witness: a write below the grid has grown it, the row it added holds
\* an id next to an empty cell, growth has then been disabled and a write
\* two rows below the grid fails.
C18_Witness ==
    /\ rows(grid) > InitRows
    /\ \E c \in GridCells(grid) : \E d \in GridCells(grid) :
           /\ c[2] = rows(grid) - 1 /\ d[2] = rows(grid) - 1
           /\ Cell(grid, c[1], c[2]) # None
           /\ Cell(grid, d[1], d[2]) = None
    /\ ~grid.can_expand_y
    /\ InnerGrid_update(grid, Node(1, 0, rows(grid) + 1, 1, 1), 0,
                        rows(grid) + 1, "Add").err.kind = "OutOfBoundsAccess"

\* C19: any grid access (get, get_mut, update) with x >= cols fails (update
\* returns OutOfBoundsAccess{x, y} with the accessed coordinates) and never
\* grows the grid or changes any cell, even when y >= rows and growth is
\* enabled.
C19_NoAccessBeyondColumns ==
    \A x \in cols(grid)..(cols(grid) + 1), y \in 0..MaxRows :
        /\ ~InnerGrid_get(grid, x, y).found
        /\ InnerGrid_get(grid, x, y).grid = grid
        /\ \A id \in Ids, operation \in {"Add", "Remove"} :
               LET u == InnerGrid_update(grid, Node(id, x, y, 1, 1), x, y,
                                         operation)
               IN  /\ u.err = [kind |-> "OutOfBoundsAccess", x |-> x, y |-> y]
                   /\ u.grid = grid
                   /\ rows(u.grid) = rows(grid)

\* C19 witness: growth is enabled, the grid holds an id and an update is
\* made beyond the last column and below the last row.
C19_Witness ==
    /\ grid.can_expand_y
    /\ \E c \in GridCells(grid) : Cell(grid, c[1], c[2]) # None
    /\ InnerGrid_update(grid, Node(1, cols(grid), rows(grid), 1, 1),
                        cols(grid), rows(grid), "Add").err.kind
           = "OutOfBoundsAccess"
    /\ ~InnerGrid_get(grid, cols(grid), rows(grid)).found

\* C20: InnerGrid::update with operation Add sets the cell to the node's id
\* whatever it held before; with operation Remove it sets the cell to empty
\* only if the cell currently holds exactly the node's id, and otherwise
\* leaves the cell unchanged and still returns Ok; in both cases no other
\* cell changes.
C20_UpdateWritesOneCell ==
    \A c \in GridCells(grid), id \in Ids, operation \in {"Add", "Remove"} :
        LET u == InnerGrid_update(grid, Node(id, c[1], c[2], 1, 1), c[1], c[2],
                                  operation)
        IN  /\ u.err = NoErr
            /\ GridCells(u.grid) = GridCells(grid)
            /\ Cell(u.grid, c[1], c[2]) =
                   IF operation = "Add" THEN Some(id)
                   ELSE IF Cell(grid, c[1], c[2]) = Some(id) THEN None
                   ELSE Cell(grid, c[1], c[2])
            /\ \A d \in GridCells(grid) \ {c} :
                   Cell(u.grid, d[1], d[2]) = Cell(grid, d[1], d[2])

\* C20 witness: the grid holds two ids and an empty cell; an Add of one id
\* on the cell of the other changes it, a Remove of one id on the cell of the
\* other changes nothing and a Remove of an id on its own cell clears it.
C20_Witness ==
    /\ \E e \in GridCells(grid) : Cell(grid, e[1], e[2]) = None
    /\ \E c \in GridCells(grid), id \in Ids :
           /\ Cell(grid, c[1], c[2]) \notin {None, Some(id)}
           /\ CellsHolding(grid, id) # {}
           /\ InnerGrid_update(grid, Node(id, c[1], c[2], 1, 1), c[1], c[2],
                               "Add").grid # grid
           /\ InnerGrid_update(grid, Node(id, c[1], c[2], 1, 1), c[1], c[2],
                               "Remove").grid = grid
           /\ \E d \in CellsHolding(grid, id) :
                  InnerGrid_update(grid, Node(id, d[1], d[2], 1, 1), d[1],
                                   d[2], "Remove").grid # grid

\* What the collision phase of add_item(id, x, y, w, h) and of
\* move_item(id, x, y) returns in the current state: the changes it
\* scheduled, the grid it worked on as it left it, its error if any.
AddResolution(id, x, y, w, h) ==
    handle_collision(items, pending_changes, Node(id, x, y, w, h), x, y, grid,
                     <<>>)

MoveResolution(id, x, y) ==
    create_move_change(items, pending_changes, items[id], x, y, grid, <<>>)

\* The call that returned r, whose collision phase returned hc and whose
\* commit step was given the changes cs, left the live grid and the registry
\* alone up to the commit step: after a failed collision phase they are
\* those of the start of the call, and otherwise they are what the commit
\* step makes of those of the start of the call.
UntouchedBeforeCommit(r, hc, cs) ==
    IF hc.err # NoErr
    THEN /\ r.grid = grid
         /\ rows(r.grid) = rows(grid)
         /\ r.items = items
    ELSE /\ r.grid = apply_changes(grid, items, changes_listeners, cs).grid
         /\ r.items = apply_changes(grid, items, changes_listeners, cs).items

\* C21: between the start of a public call and the start of its commit step,
\* the live grid (cells and row count) and the registry do not change:
\* collision detection and cascade resolution read and grow only cloned
\* grids, and erasing the moving node's footprint happens only on a scratch
\* copy.
C21_LiveEngineUntouchedBeforeCommit ==
    /\ \A id \in Ids \ DOMAIN items, x \in AnyXs, y \in AnyYs, w \in Sizes,
          h \in Sizes :
           UntouchedBeforeCommit(CallAdd(id, x, y, w, h),
               AddResolution(id, x, y, w, h),
               Append(AddResolution(id, x, y, w, h).pending,
                      AddChange(Node(id, x, y, w, h))))
    /\ \A id \in DOMAIN items, x \in AnyXs, y \in AnyYs :
           UntouchedBeforeCommit(CallMove(id, x, y), MoveResolution(id, x, y),
                                 MoveResolution(id, x, y).pending)

\* C21 witness: the collision phase of an add_item that fails has grown its
\* grid, and the collision phase of a move_item that succeeds and displaces
\* an item has grown its grid while the footprint of the moving item is
\* still in the live grid.
C21_Witness ==
    /\ \E id \in Ids \ DOMAIN items, x \in Xs, y \in AnyYs, w \in Sizes,
          h \in Sizes :
           /\ AddResolution(id, x, y, w, h).err # NoErr
           /\ rows(AddResolution(id, x, y, w, h).grid) > rows(grid)
    /\ \E id \in DOMAIN items, x \in Xs, y \in Ys :
           /\ CallMove(id, x, y).err = NoErr
           /\ Len(MoveResolution(id, x, y).pending) >= 2
           /\ rows(MoveResolution(id, x, y).grid) > rows(grid)
           /\ CellsHolding(grid, id) # {}

\* C22: the pending change list is empty whenever a public call (add_item,
\* move_item, remove_item) returns, whether it returns success or an error,
\* so no change computed in one call is ever applied or reported by a later
\* call.
C22_PendingEmptyOnReturn ==
    /\ pending_changes = <<>>
    /\ \A id \in Ids, x \in AnyXs, y \in AnyYs, w \in AnySizes,
          h \in AnySizes :
           CallAdd(id, x, y, w, h).pending_changes = <<>>
    /\ \A id \in Ids, x \in AnyXs, y \in AnyYs :
           CallMove(id, x, y).pending_changes = <<>>
    /\ \A id \in Ids : CallRemove(id).pending_changes = <<>>

\* C22 witness: an item has been displaced by an earlier call; an add_item
\* that displaces an item succeeds, a move_item whose rectangle holds
\* another item and reaches beyond the last column fails, and a remove_item
\* succeeds.
C22_Witness ==
    /\ \E o \in DOMAIN items : items[o].y >= InitRows
    /\ \E r \in AddResults : Taken(r) /\ Len(r.events[1]) >= 2
    /\ \E id \in DOMAIN items, x \in Xs, y \in Ys :
           /\ CallMove(id, x, y).err.kind = "OutOfBoundsAccess"
           /\ CollidingIds(grid, id, x, y, items[id].w, items[id].h) # {}
    /\ \E r \in RemoveResults : Taken(r)

\* The ids for which the cascade of call stacks stacks scheduled a move
\* more than once: the ids at the end of two call stacks deeper than the
\* first call.
ScheduledTwice(stacks) ==
    {p[Len(p)] : p \in {q \in stacks : Len(q) >= 2 /\ \E q2 \in stacks :
                           /\ Len(q2) >= 2
                           /\ q2 # q
                           /\ q2[Len(q2)] = q[Len(q)]}}

\* The sum of the heights of the registered items at the positions 2..k of
\* the call stack p.
RECURSIVE PathHeights(_, _)
PathHeights(p, k) ==
    IF k < 2 THEN 0 ELSE items[p[k]].h + PathHeights(p, k - 1)

\* The row for which the handle_collision call of call stack p schedules
\* the move of its node, the outermost call being for a node of height h
\* placed at row y: below every node of the stack above it.
ScheduledRow(p, y, h) == y + h + PathHeights(p, Len(p) - 1)

\* The call stack of the first call, in the order of return, that scheduled
\* a move for id.
FirstFor(log, id) ==
    log[CHOOSE k \in 1..Len(log) :
            /\ Len(log[k]) >= 2 /\ log[k][Len(log[k])] = id
            /\ \A j \in 1..(k - 1) :
                   ~(Len(log[j]) >= 2 /\ log[j][Len(log[j])] = id)]

\* The change-set cs has one Move at most per id; it has a Move for every
\* id for which the cascade of call stacks log, started for a node own of
\* height h at row y, scheduled one; each such Move is to the row scheduled
\* first; and the registry its holds every moved item at the destination of
\* its Move.
OneMovePerId(cs, log, own, y, h, its) ==
    /\ \A j \in 1..Len(cs) : \A k \in 1..Len(cs) :
           (/\ j # k
            /\ cs[j].kind = "Move"
            /\ cs[k].kind = "Move") => cs[j].new_value.id # cs[k].new_value.id
    /\ \A k \in 1..Len(log) :
           Len(log[k]) >= 2 =>
               \E m \in 1..Len(cs) :
                   /\ cs[m].kind = "Move"
                   /\ cs[m].new_value.id = log[k][Len(log[k])]
                   /\ cs[m].new_value.y =
                          ScheduledRow(FirstFor(log, cs[m].new_value.id), y, h)
    /\ \A k \in 1..Len(cs) :
           cs[k].kind = "Move" =>
               /\ cs[k].new_value.id \in DOMAIN its
               /\ its[cs[k].new_value.id] = cs[k].new_value
               /\ cs[k].new_value.id # own =>
                      \E j \in 1..Len(log) :
                          /\ Len(log[j]) >= 2
                          /\ log[j][Len(log[j])] = cs[k].new_value.id

\* C23: every change-set contains at most one Move per item id: when the
\* cascade schedules a move for an id that already has a pending Move, no
\* second Move is appended and the first recorded destination is the one
\* committed, while the moves the later scheduling causes for other ids are
\* recorded.
C23_OneMovePerId ==
    /\ \A id \in Ids \ DOMAIN items, x \in Xs, y \in Ys, w \in Sizes,
          h \in Sizes :
           CallAdd(id, x, y, w, h).err = NoErr =>
               OneMovePerId(CallAdd(id, x, y, w, h).events[1],
                            AddResolution(id, x, y, w, h).seen, id, y, h,
                            CallAdd(id, x, y, w, h).items)
    /\ \A id \in DOMAIN items, x \in Xs, y \in Ys :
           CallMove(id, x, y).err = NoErr =>
               OneMovePerId(CallMove(id, x, y).events[1],
                            MoveResolution(id, x, y).seen, id, y, items[id].h,
                            CallMove(id, x, y).items)

\* C23 witness: an add_item succeeds whose cascade schedules a move for the
\* same id twice, for two different rows.
C23_Witness ==
    \E id \in Ids \ DOMAIN items, x \in Xs, y \in Ys, w \in Sizes, h \in Sizes :
        /\ CallAdd(id, x, y, w, h).err = NoErr
        /\ \E p \in ScheduledTwice(AddStacks(id, x, y, w, h)) :
               \E q \in AddStacks(id, x, y, w, h) :
                   \E q2 \in AddStacks(id, x, y, w, h) :
                       /\ Len(q) >= 2 /\ q[Len(q)] = p
                       /\ Len(q2) >= 2 /\ q2[Len(q2)] = p
                       /\ ScheduledRow(q, y, h) # ScheduledRow(q2, y, h)

\* The change-set cs is Moves of ids other than own and then last.
MovesThen(cs, own, last) ==
    /\ cs # <<>>
    /\ cs[Len(cs)] = last
    /\ \A k \in 1..(Len(cs) - 1) :
           /\ cs[k].kind = "Move"
           /\ cs[k].new_value.id # own
           /\ cs[k].old_value.id = cs[k].new_value.id

\* C24: shape and order of a committed change-set: for add_item it is zero
\* or more Moves of other ids followed by exactly one Add of the new item as
\* last element; for move_item it is zero or more Moves of other ids followed
\* by exactly one Move of the requested id as last element (the moving item
\* is never displaced by its own cascade); for remove_item it is exactly one
\* Remove and nothing else.
C24_ChangeSetShape ==
    /\ \A id \in Ids, x \in Xs, y \in Ys, w \in Sizes, h \in Sizes :
           \A k \in 1..Len(Committed(CallAdd(id, x, y, w, h))) :
               MovesThen(Committed(CallAdd(id, x, y, w, h))[k], id,
                         [kind |-> "Add",
                          value |-> [id |-> id, x |-> x, y |-> y,
                                     w |-> w, h |-> h]])
    /\ \A id \in Ids, x \in Xs, y \in Ys :
           \A k \in 1..Len(Committed(CallMove(id, x, y))) :
               MovesThen(Committed(CallMove(id, x, y))[k], id,
                         [kind |-> "Move",
                          old_value |-> items[id],
                          new_value |-> [id |-> id, x |-> x, y |-> y,
                                         w |-> items[id].w,
                                         h |-> items[id].h]])
    /\ \A id \in Ids :
           \A k \in 1..Len(Committed(CallRemove(id))) :
               Committed(CallRemove(id))[k] =
                   <<[kind |-> "Remove", value |-> items[id]]>>

\* C24 witness: with two items registered, an add_item commits a change-set
\* of two Moves and the Add, a move_item one of a Move of the other item and
\* the Move asked for, and a remove_item commits.
C24_Witness ==
    /\ \E r \in AddResults : r.err = NoErr /\ Len(r.events[1]) = 3
    /\ \E id \in DOMAIN items, x \in Xs, y \in Ys :
           /\ Taken(CallMove(id, x, y))
           /\ Len(CallMove(id, x, y).events[1]) = 2
    /\ \E r \in RemoveResults : Taken(r)

\* The nodes will_collides_with is called with in the current state: the
\* registered ones, as move_item and the cascade pass them, and new ones, as
\* add_item passes them.
TestedNodes ==
    {items[id] : id \in DOMAIN items}
        \cup {Node(id, 0, 0, w, h) : id \in Ids \ DOMAIN items, w \in Sizes,
                                     h \in Sizes}

\* The cells of the rectangle of a node of size w, h placed at (x, y) that
\* hold the id cid in the grid g; the cells below the last row hold nothing.
HeldIn(g, x, y, w, h, cid) ==
    {c \in (x..(x + w - 1)) \X (y..(y + h - 1)) :
        c \in GridCells(g) /\ Cell(g, c[1], c[2]) = Some(cid)}

\* The place of a cell in the order in which for_cell visits the rectangle:
\* column after column, each from its first row down.
VisitRank(c, x, y, h) == (c[1] - x) * h + (c[2] - y)

\* The cell holding cid that for_cell visits first.
FirstVisit(g, x, y, w, h, cid) ==
    CHOOSE c \in HeldIn(g, x, y, w, h, cid) :
        \A d \in HeldIn(g, x, y, w, h, cid) :
            VisitRank(c, x, y, h) <= VisitRank(d, x, y, h)

\* The sequence cw is exactly the registered nodes, other than the node n,
\* held by a cell of the rectangle of n placed at (x, y) in the grid g, each
\* once, in the order in which they are first visited.
ExactCollisions(cw, g, n, x, y) ==
    /\ \A k \in 1..Len(cw) :
           /\ cw[k].id # n.id
           /\ cw[k].id \in DOMAIN items /\ cw[k] = items[cw[k].id]
           /\ HeldIn(g, x, y, n.w, n.h, cw[k].id) # {}
    /\ \A id \in DOMAIN items \ {n.id} :
           HeldIn(g, x, y, n.w, n.h, id) # {} =>
               \E k \in 1..Len(cw) : cw[k].id = id
    /\ \A j \in 1..Len(cw) : \A k \in 1..Len(cw) :
           j < k =>
               /\ cw[j].id # cw[k].id
               /\ VisitRank(FirstVisit(g, x, y, n.w, n.h, cw[j].id), x, y, n.h)
                      < VisitRank(FirstVisit(g, x, y, n.w, n.h, cw[k].id),
                                  x, y, n.h)

\* C25: will_collides_with(node, x, y, grid) returns exactly the registered
\* nodes whose id, different from node's id, is held by at least one cell of
\* [x, x+node.w) x [y, y+node.h) in the given grid, each once, in order of
\* first encounter; cells holding node's own id and empty cells contribute
\* nothing, so a node tested at a position overlapping only itself or empty
\* cells has no collisions.
C25_WillCollidesWithExact ==
    \A n \in TestedNodes, x \in Xs, y \in AnyYs :
        x + n.w <= cols(grid) =>
            /\ will_collides_with(items, n, x, y, grid).err = NoErr
            /\ ExactCollisions(
                   will_collides_with(items, n, x, y, grid).collides_with,
                   grid, n, x, y)
            /\ (\A id \in DOMAIN items \ {n.id} :
                    HeldIn(grid, x, y, n.w, n.h, id) = {}) =>
                   will_collides_with(items, n, x, y, grid).collides_with
                       = <<>>

\* C25 witness: a registered node is tested on a rectangle that holds its
\* own id and the ids of two other items, the item of the greater id met
\* first; another is tested on a rectangle of which two cells hold the same
\* other item; and one is tested where it is, meeting itself only.
C25_Witness ==
    /\ \E id \in DOMAIN items, x \in Xs, y \in Ys :
           /\ x + items[id].w <= cols(grid)
           /\ HeldIn(grid, x, y, items[id].w, items[id].h, id) # {}
           /\ Len(will_collides_with(items, items[id], x, y,
                                     grid).collides_with) = 2
           /\ will_collides_with(items, items[id], x, y,
                                 grid).collides_with[1].id
                  > will_collides_with(items, items[id], x, y,
                                       grid).collides_with[2].id
    /\ \E id \in DOMAIN items, o \in DOMAIN items, x \in Xs, y \in Ys :
           /\ o # id
           /\ x + items[id].w <= cols(grid)
           /\ Cardinality(HeldIn(grid, x, y, items[id].w, items[id].h, o)) >= 2
    /\ \E id \in DOMAIN items :
           /\ CellsHolding(grid, id) # {}
           /\ will_collides_with(items, items[id], items[id].x, items[id].y,
                                 grid).collides_with = <<>>

\* C26: a node with w = 0 or h = 0 occupies no cells: add_item of such a
\* node succeeds for any x and y (also x >= cols or y >= rows), collides with
\* nothing, displaces no item, changes no grid cell and no row count,
\* registers the node, and its change-set is exactly one Add.
C26_EmptyNodeAddedAnywhere ==
    \A id \in Ids \ DOMAIN items, x \in AnyXs, y \in 0..MaxRows,
       w \in AnySizes, h \in AnySizes :
        (w = 0 \/ h = 0) =>
            /\ Footprint(Node(id, x, y, w, h)) = {}
            /\ CallAdd(id, x, y, w, h).err = NoErr
            /\ CallAdd(id, x, y, w, h).value = Some(Node(id, x, y, w, h))
            /\ AddResolution(id, x, y, w, h).pending = <<>>
            /\ AddResolution(id, x, y, w, h).seen = << <<id>> >>
            /\ CallAdd(id, x, y, w, h).grid = grid
            /\ rows(CallAdd(id, x, y, w, h).grid) = rows(grid)
            /\ DOMAIN CallAdd(id, x, y, w, h).items = DOMAIN items \cup {id}
            /\ CallAdd(id, x, y, w, h).items[id] = Node(id, x, y, w, h)
            /\ \A o \in DOMAIN items :
                   CallAdd(id, x, y, w, h).items[o] = items[o]
            /\ CallAdd(id, x, y, w, h).events =
                   << <<[kind |-> "Add", value |-> Node(id, x, y, w, h)]>> >>

\* C26 witness: a node of no width or height is registered beyond the last
\* column and below the last row, the grid holds the id of another item,
\* and an add_item of a node of no width succeeds on a cell that item holds.
C26_Witness ==
    /\ \E e \in DOMAIN items :
           /\ items[e].w * items[e].h = 0
           /\ items[e].x >= cols(grid) /\ items[e].y >= rows(grid)
    /\ \E id \in Ids \ DOMAIN items, c \in GridCells(grid) :
           /\ Cell(grid, c[1], c[2]) # None
           /\ Taken(CallAdd(id, c[1], c[2], 0, 2))

\* C27: listener ids returned by add_changes_listener are pairwise distinct
\* over any interleaving of add_changes_listener and remove_changes_listener
\* calls: the id counter only increases and an id freed by a removal is
\* never handed out again.  The registered ids are distinct and numbered up
\* to the counter, the counter never decreases, and a listener that enters
\* the list has a number above the counter of before, which is above every
\* number handed out so far.
C27_ListenerIdsNeverReused ==
    /\ [](/\ \A j \in 1..Len(changes_listeners) :
                 \A k \in 1..Len(changes_listeners) :
                     j # k => changes_listeners[j] # changes_listeners[k]
          /\ \A k \in 1..Len(changes_listeners) :
                 /\ changes_listeners[k] =
                        ListenerId(ListenerNumber(changes_listeners[k]))
                 /\ ListenerNumber(changes_listeners[k])
                        \in 1..listener_id_counter)
    /\ [][/\ listener_id_counter' >= listener_id_counter
          /\ \A k \in 1..Len(changes_listeners') :
                 (\A j \in 1..Len(changes_listeners) :
                      changes_listeners[j] # changes_listeners'[k]) =>
                     /\ ListenerNumber(changes_listeners'[k])
                            > listener_id_counter
                     /\ ListenerNumber(changes_listeners'[k])
                            = listener_id_counter']_vars

\* C27 witness: two ids have been handed out, the first has been freed by a
\* removal and the second is registered.
C27_Witness ==
    /\ listener_id_counter = 2
    /\ changes_listeners = <<ListenerId(2)>>

\* The listeners invoked, in order, by the call that returned r.
InvokedListeners(r) == [k \in 1..Len(r.invoked) |-> r.invoked[k].listener]

\* The public calls of a caller of remove_item, and of add_item for one
\* cell, made on the current engine with the listener list listeners.
CallsWith(listeners) ==
    {remove_item(grid, items, pending_changes, listeners, id) : id \in Ids}
        \cup {add_item(grid, items, pending_changes, listeners, id, 0, 0, 1, 1) :
                 id \in Ids}

NotShrunk(g, g2) == cols(g2) = cols(g) /\ rows(g2) >= rows(g)

\* C29: across any sequence of public calls the live grid's column count
\* never changes and its row count never decreases (remove_item and moves
\* never shrink the grid): the columns are those of construction, the rows
\* no fewer, and no call, successful or not, leaves a grid of other columns
\* or of fewer rows than it found.
C29_GridNeverShrinks ==
    /\ NotShrunk(InnerGrid_new(InitRows, InitCols), grid)
    /\ \A id \in Ids, x \in AnyXs, y \in AnyYs, w \in AnySizes,
          h \in AnySizes :
           NotShrunk(grid, CallAdd(id, x, y, w, h).grid)
    /\ \A id \in Ids, x \in AnyXs, y \in AnyYs :
           NotShrunk(grid, CallMove(id, x, y).grid)
    /\ \A id \in Ids : NotShrunk(grid, CallRemove(id).grid)

\* The last row of the grid g holds nothing.
LastRowEmpty(g) ==
    \A c \in GridCells(g) : c[2] = rows(g) - 1 => Cell(g, c[1], c[2]) = None

\* C29 witness: the grid has grown; a remove_item and a move_item upward
\* each leave its last row empty, and an add_item makes it grow again.
C29_Witness ==
    /\ rows(grid) > InitRows
    /\ ~LastRowEmpty(grid)
    /\ \E id \in DOMAIN items :
           Taken(CallRemove(id)) /\ LastRowEmpty(CallRemove(id).grid)
    /\ \E id \in DOMAIN items, x \in Xs, y \in Ys :
           Taken(CallMove(id, x, y)) /\ LastRowEmpty(CallMove(id, x, y).grid)
    /\ \E r \in AddResults : r.err = NoErr /\ rows(r.grid) > rows(grid)

\* Every node of its with w >= 1 and h >= 1 lies inside the grid g.
Inside(g, its) ==
    \A id \in DOMAIN its :
        (its[id].w >= 1 /\ its[id].h >= 1)
            => /\ its[id].x + its[id].w <= cols(g)
               /\ its[id].y + its[id].h <= rows(g)

\* Every node of the result r with w >= 1 and h >= 1 lies inside its grid.
InsideResult(r) == Inside(r.grid, r.items)

\* C30: in every state reachable by public calls, every registered node
\* with w >= 1 and h >= 1 lies inside the live grid: x + w <= cols and
\* y + h <= rows, including nodes displaced by a cascade beyond the
\* previous last row.  It holds of the state and of what every call,
\* successful or failed, leaves behind.
C30_NodesInsideGrid ==
    /\ Inside(grid, items)
    /\ \A id \in Ids, x \in AnyXs, y \in AnyYs, w \in AnySizes,
          h \in AnySizes :
           InsideResult(CallAdd(id, x, y, w, h))
    /\ \A id \in Ids, x \in AnyXs, y \in AnyYs :
           InsideResult(CallMove(id, x, y))
    /\ \A id \in Ids : InsideResult(CallRemove(id))

\* The call that returned r displaced a registered node to a row beyond the
\* last row of the grid it found.
DisplacedBeyondLastRow(r) ==
    /\ Taken(r)
    /\ \E id \in DOMAIN items :
           /\ id \in DOMAIN r.items
           /\ r.items[id].y >= rows(grid)
           /\ r.items[id].y > items[id].y
           /\ r.items[id].w >= 1

\* C30 witness: a node without cells is registered outside the grid, and a
\* move_item displaces a node beyond the last row.
C30_Witness ==
    /\ \E id \in DOMAIN items :
           items[id].w * items[id].h = 0 /\ items[id].y >= rows(grid)
    /\ \E id \in DOMAIN items, x \in Xs, y \in Ys :
           /\ DisplacedBeyondLastRow(CallMove(id, x, y))
           /\ CallMove(id, x, y).items[id].y < rows(grid)

\* The call that returned r left the ids `ids` registered, kept the id, w
\* and h of every item that stays registered and, but for the item own,
\* its x too.
OnlyRequested(r, ids, own) ==
    /\ DOMAIN r.items = (IF r.err = NoErr THEN ids ELSE DOMAIN items)
    /\ \A k \in DOMAIN r.items :
           /\ r.items[k].id = k
           /\ k \in DOMAIN items =>
                  /\ r.items[k].w = items[k].w
                  /\ r.items[k].h = items[k].h
                  /\ k # own => r.items[k].x = items[k].x

\* C31: the set of registered ids changes only as requested: a successful
\* add_item adds exactly the given id, a successful remove_item removes
\* exactly the given id, a successful move_item leaves the id set unchanged
\* and a failed call too; and no call ever changes the w or h of any
\* registered item (cascades change only y).
C31_IdsChangeAsRequested ==
    /\ \A id \in Ids, x \in AnyXs, y \in AnyYs, w \in AnySizes,
          h \in AnySizes :
           OnlyRequested(CallAdd(id, x, y, w, h), DOMAIN items \cup {id}, id)
    /\ \A id \in Ids, x \in AnyXs, y \in AnyYs :
           OnlyRequested(CallMove(id, x, y), DOMAIN items, id)
    /\ \A id \in Ids :
           OnlyRequested(CallRemove(id), DOMAIN items \ {id}, id)

\* The call that returned r succeeded and took another item than own to
\* another row.
DisplacesAnother(r, own) ==
    /\ Taken(r)
    /\ \E k \in DOMAIN items \ {own} : r.items[k].y # items[k].y

\* C31 witness: two items of different sizes are registered; an add_item and
\* a move_item each succeed and displace another item, a remove_item
\* succeeds and leaves an item registered, and a call fails.
C31_Witness ==
    /\ \E a \in DOMAIN items, b \in DOMAIN items :
           items[a].w # items[b].w /\ items[a].h # items[b].h
    /\ \E id \in Ids \ DOMAIN items, x \in Xs, y \in Ys, w \in Sizes,
          h \in Sizes :
           DisplacesAnother(CallAdd(id, x, y, w, h), id)
    /\ \E id \in DOMAIN items, x \in Xs, y \in Ys :
           DisplacesAnother(CallMove(id, x, y), id)
    /\ \E id \in DOMAIN items :
           Taken(CallRemove(id)) /\ CallRemove(id).items # <<>>
    /\ \E r \in CallResults : r.err # NoErr

\* The ids of the nodes that appear in the change-set cs.
Appearing(cs) ==
    {(IF cs[k].kind = "Move" THEN cs[k].new_value.id ELSE cs[k].value.id) :
        k \in 1..Len(cs)}

\* The Moves of the change-set cs start from the registry its and end in
\* the registry its2, and the items of its that do not appear in cs are in
\* its2 as they were.
MovesFrameRegistry(cs, its, its2) ==
    /\ \A k \in 1..Len(cs) :
           cs[k].kind = "Move" =>
               /\ cs[k].old_value.id \in DOMAIN its
               /\ cs[k].old_value = its[cs[k].old_value.id]
               /\ cs[k].new_value.id \in DOMAIN its2
               /\ cs[k].new_value = its2[cs[k].new_value.id]
    /\ \A id \in DOMAIN its \ Appearing(cs) :
           id \in DOMAIN its2 /\ its2[id] = its[id]

\* The call that returned r committed nothing or a change-set whose Moves
\* frame the registry before and after the call.
FramedByMoves(r) ==
    \A k \in 1..Len(Committed(r)) :
        MovesFrameRegistry(Committed(r)[k], items, r.items)

\* C32: for every Move in a committed change-set, old_value equals the
\* geometry the registry held for that id immediately before the public
\* call and the registry holds new_value after the call; every registered
\* item that does not appear in the change-set has the same registered
\* geometry before and after the call.
C32_MovesFrameRegistry ==
    /\ \A id \in Ids, x \in AnyXs, y \in AnyYs, w \in AnySizes,
          h \in AnySizes :
           FramedByMoves(CallAdd(id, x, y, w, h))
    /\ \A id \in Ids, x \in AnyXs, y \in AnyYs :
           FramedByMoves(CallMove(id, x, y))
    /\ \A id \in Ids : FramedByMoves(CallRemove(id))

\* C32 witness: a move_item commits the Move of its item and of another one
\* and leaves a third item out of the change-set; a remove_item commits a
\* change-set without Moves.
C32_Witness ==
    /\ \E r \in MoveResults :
           /\ Taken(r)
           /\ Len(r.events[1]) = 2
           /\ DOMAIN items \ Appearing(r.events[1]) # {}
           /\ \A k \in 1..2 :
                  r.events[1][k].new_value # r.events[1][k].old_value
    /\ \E r \in RemoveResults : Taken(r)

\* The cells of the old and new footprints of the nodes that appear in the
\* change-set cs.
TouchedCells(cs) ==
    UNION {IF cs[k].kind = "Move"
           THEN Footprint(cs[k].old_value) \cup Footprint(cs[k].new_value)
           ELSE Footprint(cs[k].value) : k \in 1..Len(cs)}

\* Outside of the cells `touched`, the grid g2 holds what the grid g held,
\* and nothing where g had no cell.
SameOutside(g, g2, touched) ==
    /\ GridCells(g) \subseteq GridCells(g2)
    /\ \A c \in GridCells(g2) \ touched :
           Cell(g2, c[1], c[2]) =
               (IF c \in GridCells(g) THEN Cell(g, c[1], c[2]) ELSE None)

\* The call that returned r committed nothing or a change-set outside of
\* whose footprints the live grid is as it was.
FramedByFootprints(r) ==
    \A k \in 1..Len(Committed(r)) :
        SameOutside(grid, r.grid, TouchedCells(Committed(r)[k]))

\* C33: a committed call changes only live-grid cells that lie inside the
\* old or new footprint of a node appearing in its change-set (plus empty
\* cells of newly grown rows); every other cell holds the same value before
\* and after the call.
C33_CellsOutsideFootprintsKept ==
    /\ \A id \in Ids, x \in AnyXs, y \in AnyYs, w \in AnySizes,
          h \in AnySizes :
           FramedByFootprints(CallAdd(id, x, y, w, h))
    /\ \A id \in Ids, x \in AnyXs, y \in AnyYs :
           FramedByFootprints(CallMove(id, x, y))
    /\ \A id \in Ids : FramedByFootprints(CallRemove(id))

\* The call that returned r succeeded, made the grid grow, changed a cell
\* and left a cell that held an item and a cell of a new row outside of the
\* footprints of its change-set.
ChangesInsideOnly(r) ==
    /\ Taken(r)
    /\ rows(r.grid) > rows(grid)
    /\ \E c \in GridCells(grid) : Cell(r.grid, c[1], c[2]) # Cell(grid, c[1], c[2])
    /\ \E c \in GridCells(grid) \ TouchedCells(r.events[1]) :
           Cell(grid, c[1], c[2]) # None
    /\ GridCells(r.grid) \ (GridCells(grid) \cup TouchedCells(r.events[1])) # {}

\* C33 witness: an add_item and a move_item each commit a change-set that
\* grows the grid and leaves cells outside of its footprints, and a
\* remove_item succeeds next to another item.
C33_Witness ==
    /\ \E r \in AddResults : ChangesInsideOnly(r)
    /\ \E r \in MoveResults : ChangesInsideOnly(r)
    /\ \E r \in RemoveResults : Taken(r) /\ r.items # <<>>

\* Every Move of the change-set cs, but those of the item own, ends at the
\* row `row` or below.
LandsAtOrBelow(cs, own, row) ==
    \A k \in 1..Len(cs) :
        (cs[k].kind = "Move" /\ cs[k].new_value.id # own) =>
            cs[k].new_value.y >= row

\* The change-set the call that returned r made: the one it committed, or
\* the pending changes it stopped with.
ChangeSetOf(r) == IF r.err = NoErr THEN r.events[1] ELSE r.pending_changes

\* C34: in the change-set of add_item(id,x,y,w,h) or move_item(id,x,y),
\* every Move of another item has new.y >= y + h_incoming: every displaced
\* item, at any cascade depth, lands at or below the first row under the
\* incoming item's requested footprint.
C34_DisplacedLandBelowIncoming ==
    /\ \A id \in Ids, x \in AnyXs, y \in AnyYs, w \in AnySizes,
          h \in AnySizes :
           LandsAtOrBelow(ChangeSetOf(CallAdd(id, x, y, w, h)), id, y + h)
    /\ \A id \in DOMAIN items, x \in AnyXs, y \in AnyYs :
           LandsAtOrBelow(ChangeSetOf(CallMove(id, x, y)), id,
                          y + items[id].h)

\* The successful call that returned r displaced n other items or more than
\* own, one of them further down than the row `row`.
DisplacedBelow(r, own, row, n) ==
    /\ r.err = NoErr
    /\ Cardinality(MovesOfOthers(r.events[1], own)) >= n
    /\ \E k \in MovesOfOthers(r.events[1], own) :
           r.events[1][k].new_value.y > row

\* C34 witness: an add_item of a node of two rows displaces two other items,
\* one at cascade depth two, and a move_item displaces another item.
C34_Witness ==
    /\ \E id \in Ids \ DOMAIN items, x \in Xs, y \in Ys, w \in Sizes :
           DisplacedBelow(CallAdd(id, x, y, w, 2), id, y + 2, 2)
    /\ \E id \in DOMAIN items, x \in Xs, y \in Ys :
           /\ Taken(CallMove(id, x, y))
           /\ MovesOfOthers(CallMove(id, x, y).events[1], id) # {}

\* No cell of the footprint of the node n holds an item in the grid g.
FootprintFree(g, n) ==
    \A c \in Footprint(n) \cap GridCells(g) : Cell(g, c[1], c[2]) = None

\* remove_item(id) called on the engine that the call that returned a left.
RemoveAfter(a, id) ==
    remove_item(a.grid, a.items, a.pending_changes, changes_listeners, id)

\* The grid g2 has the cells of the grid g with what they held, and its
\* other cells are empty.
RestoredIn(g, g2) ==
    /\ SameCells(g, g2)
    /\ \A c \in GridCells(g2) \ GridCells(g) : Cell(g2, c[1], c[2]) = None

\* The add_item of the node n returned a and the remove_item of its id that
\* followed returned b: both succeeded with one event each, of the Add and
\* of the Remove of n alone, and b left the registry and the cells as they
\* were before the add.
RoundTrip(n, a, b) ==
    /\ a.err = NoErr
    /\ a.value = Some(n)
    /\ a.events = <<(<<AddChange(n)>>)>>
    /\ a.items = Insert(items, n)
    /\ b.err = NoErr
    /\ b.value = Some(n)
    /\ b.events = <<(<<RemoveChange(n)>>)>>
    /\ b.items = items
    /\ b.pending_changes = <<>>
    /\ RestoredIn(grid, b.grid)
    /\ rows(b.grid) = rows(a.grid)

\* The node n can be added: its id is not registered, its footprint lies
\* inside the columns of the grid and holds no item.
CanBeAdded(n) ==
    /\ n.id \notin DOMAIN items
    /\ (n.w >= 1 /\ n.h >= 1) => n.x + n.w <= cols(grid)
    /\ FootprintFree(grid, n)

\* C35: round trip: if the target footprint of add_item(id,x,y,w,h) holds
\* no item, then add_item followed immediately by remove_item(id) restores
\* the registry and the contents of every cell that existed before the add,
\* changes no other item, and produces two events whose change-sets are
\* exactly [Add(node)] and [Remove(node)]; only the row count may have
\* grown.
C35_AddRemoveRoundTrip ==
    \A id \in Ids, x \in AnyXs, y \in AnyYs, w \in AnySizes, h \in AnySizes :
        CanBeAdded(Node(id, x, y, w, h)) =>
            RoundTrip(Node(id, x, y, w, h), CallAdd(id, x, y, w, h),
                      RemoveAfter(CallAdd(id, x, y, w, h), id))

\* C35 witness: next to two registered items, a node can be added where no
\* item is; the add makes the grid grow, and the remove that follows leaves
\* the new rows.
C35_Witness ==
    /\ Cardinality(DOMAIN items) = 2
    /\ CellsHolding(grid, CHOOSE id \in DOMAIN items : TRUE) # {}
    /\ \E id \in Ids, x \in Xs, y \in Ys, w \in Sizes, h \in Sizes :
           /\ CanBeAdded(Node(id, x, y, w, h))
           /\ Taken(CallAdd(id, x, y, w, h))
           /\ rows(RemoveAfter(CallAdd(id, x, y, w, h), id).grid) > rows(grid)

\* The cell c comes before the cell d in column-major order.
Before(c, d) == c[1] < d[1] \/ (c[1] = d[1] /\ c[2] < d[2])

\* The cells of the rectangle (x, y, w, h).
Rectangle(x, y, w, h) == Footprint(Node(1, x, y, w, h))

\* The cells of the set `cells` up to the first cell of `fails` in
\* column-major order, that cell included.
UpToFirst(cells, fails) ==
    {c \in cells : \A f \in fails \cap cells : f = c \/ Before(c, f)}

\* The sequence `visited` holds each cell of the set `cells` once, in
\* column-major order, and nothing else.
EachOnceInOrder(visited, cells) ==
    /\ {visited[k] : k \in 1..Len(visited)} = cells
    /\ \A k \in 1..(Len(visited) - 1) : Before(visited[k], visited[k + 1])

\* The visits v of a rectangle with a callback failing on `fails`: each
\* cell up to the first failing one once and in order, and the error of that
\* cell, the last one visited, if there is one.
StopsAtFirstError(v, cells, fails) ==
    /\ EachOnceInOrder(v.visited, UpToFirst(cells, fails))
    /\ IF fails \cap cells = {}
       THEN v.err = NoErr
       ELSE /\ v.visited[Len(v.visited)] \in fails
            /\ v.err = OutOfBoundsAccess(v.visited[Len(v.visited)][1],
                                         v.visited[Len(v.visited)][2])

\* The cells of the set `cells` that InnerGrid::update cannot reach in the
\* grid g.
Unreachable(g, cells) ==
    {c \in cells : c[1] >= cols(g) \/ (~g.can_expand_y /\ c[2] >= rows(g))}

\* The grid g2 holds the id in the cells `written`, and in every other cell
\* what the grid g held, or nothing where g had no cell.
WrittenIn(g, g2, written, id) ==
    /\ cols(g2) = cols(g)
    /\ written \cup GridCells(g) \subseteq GridCells(g2)
    /\ \A c \in GridCells(g2) :
           Cell(g2, c[1], c[2]) =
               (IF c \in written THEN Some(id)
                ELSE IF c \in GridCells(g) THEN Cell(g, c[1], c[2])
                ELSE None)

\* Node::update_grid of a node of the cells `cells` with Add on the grid g
\* returned u, `fails` being the cells out of reach and `upto` the cells up
\* to the first of them: the cells before that one hold the id, every other
\* cell holds what it held, or nothing in a new row, and the error is that
\* of the first cell out of reach.
WrittenUpToError(id, g, u, cells, fails, upto) ==
    /\ WrittenIn(g, u.grid, upto \ fails, id)
    /\ IF fails = {}
       THEN u.err = NoErr
       ELSE /\ u.err.kind = "OutOfBoundsAccess"
            /\ upto \cap fails = {<<u.err.x, u.err.y>>}

\* Node::update_grid of the node n with Add on the grid g stops at the first
\* cell out of reach.
UpdateStopsAtFirstError(n, g) ==
    WrittenUpToError(n.id, g, update_grid(n, g, "Add"), Footprint(n),
                     Unreachable(g, Footprint(n)),
                     UpToFirst(Footprint(n), Unreachable(g, Footprint(n))))

====
